---- MODULE Spec2Model ----
(***************************************************************************)
(* A model of the windowed indicator primitives of ta-rs                   *)
(* (SimpleMovingAverage, Maximum, Minimum, MeanAbsoluteDeviation,          *)
(* EfficiencyRatio, RateOfChange, MoneyFlowIndex,                          *)
(* ExponentialMovingAverage) and of the indicators built from them         *)
(* (RelativeStrengthIndex, PercentagePriceOscillator,                      *)
(* CommodityChannelIndex, FastStochastic).                                 *)
(*                                                                         *)
(* One behaviour is the life of ONE indicator instance: `sel` names the    *)
(* indicator type that was constructed and `N` its const generic period.   *)
(* Each action is one call of next() or reset() on that instance.          *)
(*                                                                         *)
(* Numbers.  The buffer primitives are fed integer-valued f64 inputs of    *)
(* small magnitude; on those every f64 addition and subtraction is exact,  *)
(* so their sums are modelled as exact rationals n/d, extended by the      *)
(* IEEE-754 non-finite values (d = 0: n = 1 is +inf, n = -1 is -inf,       *)
(* n = 0 is NaN) and by -0.0 (n = 0, d = -1).  ExponentialMovingAverage    *)
(* multiplies by 2/(N+1), which is not representable in binary: it and the *)
(* indicators built from it, and CommodityChannelIndex with its decimal    *)
(* prices, are modelled in IEEE-754 binary64 with round-to-nearest-even    *)
(* (section "binary64").                                                   *)
(***************************************************************************)
EXTENDS Integers, Sequences, FiniteSets, TLC

VARIABLES
    sel,      \* which indicator type this instance is
    N,        \* the const generic period of the instance
    generics, \* the const generics FAST, SLOW, SIGNAL of a
              \*        PercentagePriceOscillator (N is its FAST)
    hist,     \* ghost: the inputs pushed since new() or the last reset()
    ticks,    \* ghost: the number of next() calls since new()
    budget,   \* ghost: the length of the input stream of this behaviour
    wasReset, \* ghost: reset() has been called since new()
    last,     \* ghost: the last call made: "new", "next" or "reset", or "panic"
              \*        when a next() failed an index bounds check and unwound
    out,      \* the value returned by the last next()
    sma,      \* SimpleMovingAverage { index, count, sum, deque }
    max,      \* Maximum { max_index, cur_index, deque }
    twin,     \* a second Maximum<N>, constructed afresh at every reset()
    twinOut,  \* the value returned by the twin's last next()
    mad,      \* MeanAbsoluteDeviation { index, count, sum, deque }
    er,       \* EfficiencyRatio { index, count, deque }
    roc,      \* RateOfChange { index, count, deque }
    mfi,      \* MoneyFlowIndex { index, count, previous_typical_price, totals, deque }
    ema,      \* ExponentialMovingAverage { k, current, is_new }
    rsi,      \* RelativeStrengthIndex { up_ema_indicator, down_ema_indicator,
              \*                         prev_val, is_new }
    cci,      \* CommodityChannelIndex { sma, mad }
    fs,       \* FastStochastic { minimum, maximum }
    ppo,      \* PercentagePriceOscillator { fast_ema, slow_ema, signal_ema }
    mfi64,    \* MoneyFlowIndex, its f64 fields bit for bit
    sma64     \* SimpleMovingAverage, its f64 fields bit for bit

vars == <<sel, N, generics, hist, ticks, budget, wasReset, last, out, sma, max,
          twin, twinOut, mad, er, roc, mfi, ema, rsi, cci, fs, ppo,
          mfi64, sma64>>

(***************************************************************************)
(* Bounds of the model.                                                    *)
(***************************************************************************)
MaxN == 3            \* periods 1..MaxN
MaxTicks == 5        \* next() calls in one behaviour
MaxVal == 2          \* inputs range over -NegVals..MaxVal
NegVals == 1

MaxShortTicks == 3   \* next() calls in a behaviour of the all-indicator Spec
MaxBarTicks == 4     \* next() calls on a MoneyFlowIndex
MaxPrice == 2        \* typical prices of the bars range over 1..MaxPrice
MaxVolume == 1       \* volumes of the bars range over 0..MaxVolume
MaxEmaTicks == 3     \* next() calls on an ExponentialMovingAverage
MaxEmaVal == 3       \* its inputs range over -NegVals..MaxEmaVal
MaxOscVal == 2       \* inputs of the oscillators range over 0..MaxOscVal
MaxCciTicks == 4     \* next() calls on a CommodityChannelIndex
MaxFsTicks == 3      \* next() calls on a FastStochastic
MaxFlowTicks == 5    \* next() calls on a MoneyFlowIndex fed with decimal prices
MaxSumTicks == 3     \* next() calls on a SimpleMovingAverage fed with tenths

\* pub struct ExponentialMovingAverage<const N: usize = 9>
DEFAULT_PERIOD == 9

Vals == (0 - NegVals)..MaxVal

Periods == 1..MaxN

EmaVals == (0 - NegVals)..MaxEmaVal

EmaPeriods == Periods \cup {DEFAULT_PERIOD}

\* the prices fed to a RelativeStrengthIndex or PercentagePriceOscillator
OscVals == 0..MaxOscVal

\* pub struct PercentagePriceOscillator<const FAST: usize = 12,
\*     const SLOW: usize = 26, const SIGNAL: usize = 9>
DEFAULT_GENERICS == [fast |-> 12, slow |-> 26, signal |-> 9]

\* Ppo::<3, 6, 4> of the tests
TEST_GENERICS == [fast |-> 3, slow |-> 6, signal |-> 4]

PpoGenerics == {DEFAULT_GENERICS, TEST_GENERICS}

\* bars in tenths: 11.7/4.2/5.8, whose close is not its typical price, and
\* the bar 2.0/1.0/1.5 of the tests, whose close is its typical price
CciBars ==
    {[high |-> 117, low |-> 42, close |-> 58],
     [high |-> 20, low |-> 10, close |-> 15]}

\* bars of a MoneyFlowIndex in tenths, none of them exact in f64: high, low
\* and close are 0.1, 0.2 or 0.3 and the volume is 1.0
FlowBars ==
    {[high |-> 1, low |-> 1, close |-> 1, volume |-> 1],
     [high |-> 2, low |-> 2, close |-> 2, volume |-> 1],
     [high |-> 3, low |-> 3, close |-> 3, volume |-> 1]}

\* bars of a FastStochastic: the high is in 1..MaxPrice, the low is 0 or the
\* high, the close is the high
FsBars ==
    {[high |-> h, low |-> h * f, close |-> h] : h \in 1..MaxPrice, f \in {0, 1}}

\* bars with non-negative prices and volumes whose typical price
\* (high + low + close) / 3 is an integer, hence exact in f64
Bars ==
    {[high |-> 2 * t, low |-> 0, close |-> t, volume |-> v] :
        t \in 1..MaxPrice, v \in 0..MaxVolume}

(***************************************************************************)
(* Extended rationals: the values of f64 fields fed with small integers.   *)
(***************************************************************************)
Abs(i) == IF i < 0 THEN 0 - i ELSE i

Sign(i) == IF i < 0 THEN 0 - 1 ELSE IF i > 0 THEN 1 ELSE 0

RECURSIVE GCD(_, _)
GCD(a, b) == IF b = 0 THEN a ELSE GCD(b, a % b)

\* n/d in lowest terms with d > 0; n/0 collapses to +inf, -inf or NaN.
RNorm(n, d) ==
    IF d = 0 THEN [n |-> Sign(n), d |-> 0]
    ELSE LET g == GCD(Abs(n), Abs(d))
         IN  [n |-> Sign(d) * Sign(n) * (Abs(n) \div g), d |-> Abs(d) \div g]

FromInt(i) == [n |-> i, d |-> 1]
Zero == FromInt(0)
NaN == [n |-> 0, d |-> 0]
NEG_INFINITY == [n |-> 0 - 1, d |-> 0]
INFINITY == [n |-> 1, d |-> 0]

IsNaN(x) == x.d = 0 /\ x.n = 0
IsFinite(x) == x.d # 0

\* -x; the negation of 0.0 is -0.0, which keeps its sign in the denominator
RNeg(x) == IF x.n = 0 THEN [n |-> 0, d |-> 0 - x.d] ELSE [n |-> 0 - x.n, d |-> x.d]

\* f64::is_sign_positive: the sign bit is clear (true of 0.0, false of -0.0)
IsSignPositive(x) == IF x.n = 0 THEN x.d >= 0 ELSE x.n > 0

RAdd(x, y) ==
    IF x.d = 0 /\ y.d = 0
    THEN (IF x.n = y.n THEN x ELSE NaN)      \* inf + inf, inf - inf, NaN
    ELSE RNorm(x.n * y.d + y.n * x.d, x.d * y.d)

RSub(x, y) == RAdd(x, RNeg(y))

RMul(x, y) == RNorm(x.n * y.n, x.d * y.d)

\* x / y as f64 division does it: 0/0 and inf/inf are NaN, x/0 is +-inf.
RDiv(x, y) ==
    RNorm(x.n * y.d * (IF y.n < 0 THEN 0 - 1 ELSE 1), x.d * Abs(y.n))

RAbs(x) == [n |-> Abs(x.n), d |-> Abs(x.d)]

\* x > y as f64 compares: false whenever either side is NaN.
RGt(x, y) ==
    IF IsNaN(x) \/ IsNaN(y) THEN FALSE
    ELSE IF x.d = 0 \/ y.d = 0
         THEN (IF x.d = 0 THEN x.n ELSE 0) > (IF y.d = 0 THEN y.n ELSE 0)
         ELSE x.n * Abs(y.d) > y.n * Abs(x.d)

RLt(x, y) == RGt(y, x)

\* f64 ==: false when either side is NaN, true of 0.0 and -0.0
REq(x, y) == (~IsNaN(x)) /\ (~IsNaN(y)) /\ (~RGt(x, y)) /\ ~RGt(y, x)

RGe(x, y) == (~IsNaN(x)) /\ (~IsNaN(y)) /\ ~RGt(y, x)

(***************************************************************************)
(* Helpers over the ghost history.                                         *)
(***************************************************************************)
Min2(a, b) == IF a < b THEN a ELSE b

\* the last m elements of the sequence h (all of it when it is shorter)
LastM(h, m) == SubSeq(h, Len(h) - Min2(Len(h), m) + 1, Len(h))

RECURSIVE SumSeq(_)
SumSeq(h) == IF h = <<>> THEN 0 ELSE h[1] + SumSeq(Tail(h))

RECURSIVE MaxSeq(_)
MaxSeq(h) ==
    IF Len(h) = 1 THEN h[1]
    ELSE LET m == MaxSeq(Tail(h)) IN IF h[1] > m THEN h[1] ELSE m

\* arithmetic mean of a non-empty sequence of integers
MeanSeq(h) == RDiv(FromInt(SumSeq(h)), FromInt(Len(h)))

(***************************************************************************)
(* The cursor step shared by every ring buffer:                            *)
(*   index = if index + 1 < N { index + 1 } else { 0 }                     *)
(***************************************************************************)
\* faulty variant: the cursor is not wrapped
AdvanceNoWrap(index, n) == index + 1

Advance(index, n) == IF index + 1 < n THEN index + 1 ELSE 0

Filled(n, v) == [i \in 0..(n - 1) |-> v]

(***************************************************************************)
(* SimpleMovingAverage                                                     *)
(***************************************************************************)
SMANew(n) == [index |-> 0, count |-> 0, sum |-> Zero, deque |-> Filled(n, Zero)]

\* faulty variant: the evicted value is never subtracted
SMASumKeepOld(sum, old_val, input) == RAdd(sum, input)

\* self.sum = self.sum - old_val + input
SMASum(sum, old_val, input) == RAdd(RSub(sum, old_val), input)

\* the bounds check of self.deque[self.index]: next() panics when it fails
SMA_in_bounds(self, n) == self.index < n

\* next(): the new struct and the returned value
SMA_next(self, n, input) ==
    LET old_val == self.deque[self.index]
        count == IF self.count < n THEN self.count + 1 ELSE self.count
        sum == SMASum(self.sum, old_val, input)
    IN  [self |-> [index |-> Advance(self.index, n),
                   count |-> count,
                   sum |-> sum,
                   deque |-> [self.deque EXCEPT ![self.index] = input]],
         out |-> RDiv(sum, FromInt(count))]

\* faulty variant: the buffer is not cleared
SMA_reset_keep_deque(self, n) ==
    [self EXCEPT !.index = 0, !.count = 0, !.sum = Zero]

SMA_reset(self, n) ==
    [index |-> 0, count |-> 0, sum |-> Zero, deque |-> Filled(n, Zero)]

(***************************************************************************)
(* Maximum                                                                 *)
(***************************************************************************)
MaxNew(n) == [max_index |-> 0, cur_index |-> 0, deque |-> Filled(n, Zero)]

\* faulty variant: a slot equal to the running maximum takes over, so the
\* highest index among equals is returned
RECURSIVE FindMaxFromLast(_, _, _, _, _)
FindMaxFromLast(deque, n, i, mx, index) ==
    IF i >= n THEN index
    ELSE IF RGe(deque[i], mx)
         THEN FindMaxFromLast(deque, n, i + 1, deque[i], i)
         ELSE FindMaxFromLast(deque, n, i + 1, mx, index)

\* the loop of find_max_index from slot i on, with the running max and index
RECURSIVE FindMaxFrom(_, _, _, _, _)
FindMaxFrom(deque, n, i, mx, index) ==
    IF i >= n THEN index
    ELSE IF RGt(deque[i], mx)
         THEN FindMaxFrom(deque, n, i + 1, deque[i], i)
         ELSE FindMaxFrom(deque, n, i + 1, mx, index)

\* faulty variant: no rescan, slot 0 is taken
find_max_index_first_slot(deque, n) == 0

find_max_index(deque, n) == FindMaxFrom(deque, n, 0, NEG_INFINITY, 0)

\* the bounds checks of self.deque[self.cur_index], self.deque[self.max_index]
Max_in_bounds(self, n) == self.cur_index < n /\ self.max_index < n

\* faulty variant: the buffer is not rescanned when the tracked slot is
\* overwritten
Max_next_no_rescan(self, n, input) ==
    LET deque == [self.deque EXCEPT ![self.cur_index] = input]
        max_index ==
            IF RGt(input, deque[self.max_index]) THEN self.cur_index
            ELSE self.max_index
    IN  [self |-> [max_index |-> max_index,
                   cur_index |-> Advance(self.cur_index, n),
                   deque |-> deque],
         out |-> deque[max_index]]

Max_next(self, n, input) ==
    LET deque == [self.deque EXCEPT ![self.cur_index] = input]
        max_index ==
            IF RGt(input, deque[self.max_index]) THEN self.cur_index
            ELSE IF self.max_index = self.cur_index THEN find_max_index(deque, n)
            ELSE self.max_index
    IN  [self |-> [max_index |-> max_index,
                   cur_index |-> Advance(self.cur_index, n),
                   deque |-> deque],
         out |-> deque[max_index]]

\* faulty variant: only the tracked slot is overwritten
Max_reset_tracked_slot(self, n) ==
    [self EXCEPT !.deque[self.max_index] = NEG_INFINITY]

\* faulty variant: the buffer is filled with 0.0, as new() does
Max_reset_zeros(self, n) == [self EXCEPT !.deque = Filled(n, Zero)]

\* reset() overwrites the buffer only; max_index and cur_index stay
Max_reset(self, n) == [self EXCEPT !.deque = Filled(n, NEG_INFINITY)]

(***************************************************************************)
(* Slices of a buffer: &deque[a..b] as the sequence of its elements.       *)
(***************************************************************************)
\* faulty variant: the whole buffer, placeholder slots included
SliceAll(deque, a, b) == [i \in 1..Cardinality(DOMAIN deque) |-> deque[i - 1]]

Slice(deque, a, b) == [i \in 1..(b - a) |-> deque[a + i - 1]]

(***************************************************************************)
(* MeanAbsoluteDeviation                                                   *)
(***************************************************************************)
MADNew(n) == [index |-> 0, count |-> 0, sum |-> Zero, deque |-> Filled(n, Zero)]

\* for value in slice { mad += (value - mean).abs() }
RECURSIVE SumAbsDev(_, _, _)
SumAbsDev(slice, mean, dev) ==
    IF slice = <<>> THEN dev
    ELSE SumAbsDev(Tail(slice), mean, RAdd(dev, RAbs(RSub(slice[1], mean))))

\* the bounds checks of self.deque[self.index] and &self.deque[..self.count]
MAD_in_bounds(self, n) ==
    /\ self.index < n
    /\ (IF self.count < n THEN self.count + 1 ELSE self.count) <= n

MAD_next(self, n, input) ==
    LET count == IF self.count < n THEN self.count + 1 ELSE self.count
        sum == IF self.count < n
               THEN RAdd(self.sum, input)
               ELSE RSub(RAdd(self.sum, input), self.deque[self.index])
        deque == [self.deque EXCEPT ![self.index] = input]
        mean == RDiv(sum, FromInt(count))
        dev == SumAbsDev(Slice(deque, 0, count), mean, Zero)
    IN  [self |-> [index |-> Advance(self.index, n),
                   count |-> count,
                   sum |-> sum,
                   deque |-> deque],
         out |-> RDiv(dev, FromInt(count))]

MAD_reset(self, n) ==
    [index |-> 0, count |-> 0, sum |-> Zero, deque |-> Filled(n, Zero)]

(***************************************************************************)
(* EfficiencyRatio                                                         *)
(***************************************************************************)
ERNew(n) == [index |-> 0, count |-> 0, deque |-> Filled(n, Zero)]

\* faulty variant: every difference is taken against the seed, `previous`
\* is never moved along the slice
RECURSIVE WalkFromSeed(_, _, _)
WalkFromSeed(slice, volatility, previous) ==
    IF slice = <<>> THEN <<volatility, previous>>
    ELSE WalkFromSeed(Tail(slice),
                      RAdd(volatility, RAbs(RSub(previous, slice[1]))),
                      previous)

\* for n in slice { volatility += (previous - n).abs(); previous = *n; }
\* returns the pair <<volatility, previous>> after the loop
RECURSIVE Walk(_, _, _)
Walk(slice, volatility, previous) ==
    IF slice = <<>> THEN <<volatility, previous>>
    ELSE Walk(Tail(slice),
              RAdd(volatility, RAbs(RSub(previous, slice[1]))),
              slice[1])

\* the bounds checks of self.deque[0] (warm-up), self.deque[self.index],
\* &self.deque[self.index..self.count] and &self.deque[0..self.index]
ER_in_bounds(self, n) ==
    LET count == IF self.count >= n THEN self.count ELSE self.count + 1
        index == Advance(self.index, n)
    IN  /\ (self.count < n => 0 < n)
        /\ self.index < n
        /\ index <= count /\ count <= n

ER_next(self, n, input) ==
    LET first == IF self.count >= n THEN self.deque[self.index] ELSE self.deque[0]
        count == IF self.count >= n THEN self.count ELSE self.count + 1
        deque == [self.deque EXCEPT ![self.index] = input]
        index == Advance(self.index, n)
        w1 == Walk(Slice(deque, index, count), Zero, first)
        w2 == Walk(Slice(deque, 0, index), w1[1], w1[2])
        volatility == w2[1]
    IN  [self |-> [index |-> index, count |-> count, deque |-> deque],
         out |-> RDiv(RAbs(RSub(first, input)), volatility)]

\* faulty variant: the fill counter is not cleared
ER_reset_keep_count(self, n) ==
    [self EXCEPT !.index = 0, !.deque = Filled(n, Zero)]

ER_reset(self, n) == [index |-> 0, count |-> 0, deque |-> Filled(n, Zero)]

(***************************************************************************)
(* RateOfChange                                                            *)
(***************************************************************************)
ROCNew(n) == [index |-> 0, count |-> 0, deque |-> Filled(n, Zero)]

\* the bounds checks of self.deque[0] (warm-up after the first tick) and
\* self.deque[self.index]
ROC_in_bounds(self, n) ==
    /\ ((self.count <= n /\ self.count + 1 # 1) => 0 < n)
    /\ self.index < n

\* faulty variant: the reference is the slot under the cursor on every tick
ROC_next_cursor_ref(self, n, input) ==
    LET count == IF self.count > n THEN self.count ELSE self.count + 1
        previous == self.deque[self.index]
    IN  [self |-> [index |-> Advance(self.index, n),
                   count |-> count,
                   deque |-> [self.deque EXCEPT ![self.index] = input]],
         out |-> RMul(RDiv(RSub(input, previous), previous), FromInt(100))]

\* faulty variant: the fill counter is incremented on every tick
ROC_next_uncapped(self, n, input) ==
    LET previous == IF self.count > n THEN self.deque[self.index]
                    ELSE IF self.count + 1 = 1 THEN input
                    ELSE self.deque[0]
    IN  [self |-> [index |-> Advance(self.index, n),
                   count |-> self.count + 1,
                   deque |-> [self.deque EXCEPT ![self.index] = input]],
         out |-> RMul(RDiv(RSub(input, previous), previous), FromInt(100))]

ROC_next(self, n, input) ==
    LET count == IF self.count > n THEN self.count ELSE self.count + 1
        previous == IF self.count > n THEN self.deque[self.index]
                    ELSE IF count = 1 THEN input
                    ELSE self.deque[0]
    IN  [self |-> [index |-> Advance(self.index, n),
                   count |-> count,
                   deque |-> [self.deque EXCEPT ![self.index] = input]],
         out |-> RMul(RDiv(RSub(input, previous), previous), FromInt(100))]

ROC_reset(self, n) == [index |-> 0, count |-> 0, deque |-> Filled(n, Zero)]

(***************************************************************************)
(* MoneyFlowIndex.  The input is a bar with high, low, close and volume.   *)
(***************************************************************************)
MFINew(n) ==
    [index |-> 0, count |-> 0, previous_typical_price |-> Zero,
     total_positive_money_flow |-> Zero, total_negative_money_flow |-> Zero,
     deque |-> Filled(n, Zero)]

\* let tp = (input.close() + input.high() + input.low()) / 3.0
TypicalPrice(bar) == RDiv(FromInt(bar.close + bar.high + bar.low), FromInt(3))

NEUTRAL == FromInt(50)

\* the bounds check of self.deque[self.index] after the cursor step; the
\* first tick returns before any slot is touched
MFI_in_bounds(self, n) ==
    (self.count < n /\ self.count + 1 = 1) \/ Advance(self.index, n) < n

MFI_next(self, n, bar) ==
    LET tp == TypicalPrice(bar)
        index == Advance(self.index, n)
        count == IF self.count < n THEN self.count + 1 ELSE self.count
        popped == self.deque[index]
        \* the eviction adjustment, made only when the tick starts with count == N
        pos0 == IF self.count < n THEN self.total_positive_money_flow
                ELSE IF IsSignPositive(popped)
                     THEN RSub(self.total_positive_money_flow, popped)
                     ELSE self.total_positive_money_flow
        neg0 == IF self.count < n THEN self.total_negative_money_flow
                ELSE IF IsSignPositive(popped)
                     THEN self.total_negative_money_flow
                     ELSE RAdd(self.total_negative_money_flow, popped)
        raw_money_flow == RMul(tp, FromInt(bar.volume))
        up == RGt(tp, self.previous_typical_price)
        down == RLt(tp, self.previous_typical_price)
        pos == IF up THEN RAdd(pos0, raw_money_flow) ELSE pos0
        neg == IF (~up) /\ down THEN RAdd(neg0, raw_money_flow) ELSE neg0
        slot == IF up THEN raw_money_flow
                ELSE IF down THEN RNeg(raw_money_flow)
                ELSE Zero
    IN  IF self.count < n /\ count = 1
        THEN \* the first tick: only the cursor, the count and the price change
             [self |-> [self EXCEPT !.index = index,
                                    !.count = count,
                                    !.previous_typical_price = tp],
              out |-> NEUTRAL]
        ELSE [self |-> [index |-> index,
                        count |-> count,
                        previous_typical_price |-> tp,
                        total_positive_money_flow |-> pos,
                        total_negative_money_flow |-> neg,
                        deque |-> [self.deque EXCEPT ![index] = slot]],
              out |-> RMul(RDiv(pos, RAdd(pos, neg)), FromInt(100))]

\* faulty variant: the fill counter is not cleared
MFI_reset_keep_count(self, n) ==
    [self EXCEPT !.index = 0, !.previous_typical_price = Zero,
                 !.total_positive_money_flow = Zero,
                 !.total_negative_money_flow = Zero,
                 !.deque = Filled(n, Zero)]

MFI_reset(self, n) ==
    [index |-> 0, count |-> 0, previous_typical_price |-> Zero,
     total_positive_money_flow |-> Zero, total_negative_money_flow |-> Zero,
     deque |-> Filled(n, Zero)]

(***************************************************************************)
(* binary64: IEEE-754 double precision with round-to-nearest-even.         *)
(*                                                                         *)
(* A finite f64 is [s, m, e] with value s * m * 2^e, s in {1, -1}, and m   *)
(* either zero or a Precision-bit integer (2^52 <= m < 2^53).  m does not  *)
(* fit a 32-bit integer of TLC, so it is a little-endian sequence of limbs *)
(* below Base (zero is the empty sequence).  The values handled here stay  *)
(* far from the exponent limits: overflow and subnormals are not modelled. *)
(* The non-finite values have an empty significand and e = 1: s = 1 is     *)
(* +inf, s = -1 is -inf and s = 0 is NaN.                                  *)
(***************************************************************************)
Precision == 53

\* a product of two limbs plus two carries fits a 32-bit signed integer
LimbBits == (32 \div 2) - 1

Base == 2 ^ LimbBits

Hd(a) == IF a = <<>> THEN 0 ELSE a[1]

Tl(a) == IF a = <<>> THEN <<>> ELSE Tail(a)

RECURSIVE BTrim(_)
BTrim(a) ==
    IF a = <<>> THEN <<>>
    ELSE IF a[Len(a)] = 0 THEN BTrim(SubSeq(a, 1, Len(a) - 1))
    ELSE a

RECURSIVE BAddC(_, _, _)
BAddC(a, b, c) ==
    IF a = <<>> /\ b = <<>> THEN (IF c = 0 THEN <<>> ELSE <<c>>)
    ELSE LET x == Hd(a) + Hd(b) + c
         IN  <<x % Base>> \o BAddC(Tl(a), Tl(b), x \div Base)

BAdd(a, b) == BAddC(a, b, 0)

\* a - b - br for a >= b + br
RECURSIVE BSubB(_, _, _)
BSubB(a, b, br) ==
    IF a = <<>> THEN <<>>
    ELSE LET x == Hd(a) - Hd(b) - br
         IN  IF x < 0 THEN <<x + Base>> \o BSubB(Tl(a), Tl(b), 1)
             ELSE <<x>> \o BSubB(Tl(a), Tl(b), 0)

BSub(a, b) == BTrim(BSubB(a, b, 0))

RECURSIVE BCmpAt(_, _, _)
BCmpAt(a, b, i) ==
    IF i = 0 THEN 0
    ELSE IF a[i] # b[i] THEN (IF a[i] < b[i] THEN 0 - 1 ELSE 1)
    ELSE BCmpAt(a, b, i - 1)

\* -1, 0 or 1 as a < b, a = b or a > b
BCmp(a, b) ==
    IF Len(a) # Len(b) THEN (IF Len(a) < Len(b) THEN 0 - 1 ELSE 1)
    ELSE BCmpAt(a, b, Len(a))

RECURSIVE BMulSmall(_, _, _)
BMulSmall(a, m, c) ==
    IF a = <<>> THEN (IF c = 0 THEN <<>> ELSE <<c>>)
    ELSE LET x == a[1] * m + c
         IN  <<x % Base>> \o BMulSmall(Tail(a), m, x \div Base)

ShiftLimbs(a, k) == IF a = <<>> THEN <<>> ELSE [i \in 1..k |-> 0] \o a

RECURSIVE BMul(_, _)
BMul(a, b) ==
    IF a = <<>> \/ b = <<>> THEN <<>>
    ELSE BAdd(BTrim(BMulSmall(a, b[1], 0)), ShiftLimbs(BMul(a, Tail(b)), 1))

\* a * 2^s
BShl(a, s) == ShiftLimbs(BMulSmall(a, 2 ^ (s % LimbBits), 0), s \div LimbBits)

\* quotient and remainder of a by the small integer m, from the top limb down
RECURSIVE BDivAt(_, _, _, _)
BDivAt(a, m, i, r) ==
    IF i = 0 THEN [q |-> <<>>, r |-> r]
    ELSE LET x == r * Base + a[i]
             rest == BDivAt(a, m, i - 1, x % m)
         IN  [q |-> rest.q \o <<x \div m>>, r |-> rest.r]

\* the quotient without its leading zero limbs
Trimmed(d) == [q |-> BTrim(d.q), r |-> d.r]

BDivSmall(a, m) == Trimmed(BDivAt(a, m, Len(a), 0))

\* floor(a / 2^s)
BShr(a, s) ==
    LET k == s \div LimbBits
        kept == IF k >= Len(a) THEN <<>> ELSE SubSeq(a, k + 1, Len(a))
    IN  BDivSmall(kept, 2 ^ (s % LimbBits)).q

RECURSIVE BitLenInt(_)
BitLenInt(x) == IF x = 0 THEN 0 ELSE 1 + BitLenInt(x \div 2)

BBitLen(a) == IF a = <<>> THEN 0 ELSE LimbBits * (Len(a) - 1) + BitLenInt(a[Len(a)])

BOdd(a) == a # <<>> /\ a[1] % 2 = 1

FZero(s) == [s |-> s, m |-> <<>>, e |-> 0]

FIsZero(x) == x.m = <<>> /\ x.e = 0

FNaN == [s |-> 0, m |-> <<>>, e |-> 1]

FInf(s) == [s |-> s, m |-> <<>>, e |-> 1]

FIsNaN(x) == x.m = <<>> /\ x.e = 1 /\ x.s = 0

FIsInf(x) == x.m = <<>> /\ x.e = 1 /\ x.s # 0

FIsFinite(x) == ~(x.m = <<>> /\ x.e = 1)

\* the rounded significand q1 at exponent e: a carry out of the top bit
\* makes it one bit longer, and the (zero) low bit is dropped
RoundCarry(s, q1, e) ==
    IF BBitLen(q1) > Precision
    THEN [s |-> s, m |-> BShr(q1, 1), e |-> e + 1]
    ELSE [s |-> s, m |-> q1, e |-> e]

\* the kept bits q of a significand, rounded up when the dropped bits are
\* more than half a unit (c > 0), or exactly half (c = 0) and q is odd
RoundHalfEven(s, q, c, e) ==
    RoundCarry(s, IF c > 0 \/ (c = 0 /\ BOdd(q)) THEN BAdd(q, <<1>>) ELSE q, e)

\* M cut to its top Precision bits q, the sh bits dropped compared to half
RoundCut(s, M, e, sh, q) ==
    RoundHalfEven(s, q, BCmp(BSub(M, BShl(q, sh)), BShl(<<1>>, sh - 1)), e + sh)

\* M of L bits: widened to Precision bits, or cut to them
RoundBits(s, M, e, L) ==
    IF L <= Precision
    THEN [s |-> s, m |-> BShl(M, Precision - L), e |-> e - (Precision - L)]
    ELSE RoundCut(s, M, e, L - Precision, BShr(M, L - Precision))

\* the f64 nearest to s * M * 2^e, ties to the even significand
Round(s, M, e) == IF M = <<>> THEN FZero(s) ELSE RoundBits(s, M, e, BBitLen(M))

\* `i as f64` for an integer of small magnitude (exact)
F64(i) == Round(IF i < 0 THEN 0 - 1 ELSE 1, IF i = 0 THEN <<>> ELSE <<Abs(i)>>, 0)

FNeg(x) == [x EXCEPT !.s = 0 - x.s]

FAbs(x) == [x EXCEPT !.s = Abs(x.s)]

FMul(x, y) ==
    IF FIsNaN(x) \/ FIsNaN(y) THEN FNaN
    ELSE IF FIsInf(x) \/ FIsInf(y)
         THEN (IF FIsZero(x) \/ FIsZero(y) THEN FNaN ELSE FInf(x.s * y.s))
    ELSE Round(x.s * y.s, BMul(x.m, y.m), x.e + y.e)

\* the sum of xs * X * 2^e and ys * Y * 2^e
FAddAligned(xs, ys, X, Y, e) ==
    IF xs = ys THEN Round(xs, BAdd(X, Y), e)
    ELSE IF BCmp(X, Y) > 0 THEN Round(xs, BSub(X, Y), e)
    ELSE IF BCmp(X, Y) < 0 THEN Round(ys, BSub(Y, X), e)
    ELSE FZero(1)

\* the sum of two non-zero finite values, aligned at the exponent e
FAddAt(x, y, e) ==
    FAddAligned(x.s, y.s, BShl(x.m, x.e - e), BShl(y.m, y.e - e), e)

FAdd(x, y) ==
    IF FIsNaN(x) \/ FIsNaN(y) THEN FNaN
    ELSE IF FIsInf(x) /\ FIsInf(y) THEN (IF x.s = y.s THEN x ELSE FNaN)
    ELSE IF FIsInf(x) THEN x
    ELSE IF FIsInf(y) THEN y
    ELSE IF FIsZero(x) /\ FIsZero(y) THEN FZero(IF x.s < 0 /\ y.s < 0 THEN 0 - 1 ELSE 1)
    ELSE IF FIsZero(x) THEN y
    ELSE IF FIsZero(y) THEN x
    ELSE FAddAt(x, y, Min2(x.e, y.e))

FSub(x, y) == FAdd(x, FNeg(y))

\* x / (d as f64) for a small positive integer d: the quotient is taken
\* with GuardBits extra bits and a sticky bit, then rounded once
GuardBits == 4 * LimbBits

\* the quotient q with one more bit below it, set when the division left a
\* remainder, rounded once
RoundQuotient(s, q, exact, e) ==
    Round(s, BAdd(BShl(q, 1), IF exact THEN <<>> ELSE <<1>>), e)

FDivIntOf(x, qr) == RoundQuotient(x.s, qr.q, qr.r = 0, x.e - GuardBits - 1)

FDivInt(x, d) == FDivIntOf(x, BDivSmall(BShl(x.m, GuardBits), d))

Limb(a, i) == IF i <= Len(a) THEN a[i] ELSE 0

\* the largest digit q <= qh with q * d <= R
RECURSIVE DigitFix(_, _, _)
DigitFix(R, d, qh) ==
    IF BCmp(BTrim(BMulSmall(d, qh, 0)), R) > 0 THEN DigitFix(R, d, qh - 1)
    ELSE qh

\* the long division of r * Base^k by d, one quotient limb at a time, for
\* r < d and d with its top limb at least Base / 2: each digit is estimated
\* from the two top limbs of the remainder and corrected downwards
RECURSIVE BDivDigits(_, _, _, _)
BDivDigits(r, d, q, k) ==
    IF k = 0 THEN [q |-> BTrim(q), r |-> r]
    ELSE LET R == ShiftLimbs(r, 1)
             top == Limb(R, Len(d) + 1) * Base + Limb(R, Len(d))
             qd == DigitFix(R, d, Min2(Base - 1, top \div d[Len(d)]))
         IN  BDivDigits(BSub(R, BTrim(BMulSmall(d, qd, 0))), d, <<qd>> \o q, k - 1)

\* quotient limbs taken below the binary point of x.m / y.m (a value in
\* (1/2, 2)): enough for the significand, a rounding bit and more
QuotientLimbs == GuardBits \div LimbBits

FDivOf(s, qr, e) == RoundQuotient(s, qr.q, qr.r = <<>>, e)

\* X / Y for Y with its top limb at least Base / 2 and X of the same length
FDivAligned(s, X, Y, e) ==
    FDivOf(s,
           BDivDigits(IF BCmp(X, Y) >= 0 THEN BSub(X, Y) ELSE X, Y,
                      IF BCmp(X, Y) >= 0 THEN <<1>> ELSE <<>>, QuotientLimbs),
           e)

\* both significands shifted left by sh bits
FDivShifted(x, y, sh) ==
    FDivAligned(x.s * y.s, BShl(x.m, sh), BShl(y.m, sh),
                x.e - y.e - GuardBits - 1)

\* x / y: the quotient of the significands with a sticky bit, rounded once
FDiv(x, y) ==
    IF FIsNaN(x) \/ FIsNaN(y) THEN FNaN
    ELSE IF FIsInf(x) THEN (IF FIsInf(y) THEN FNaN ELSE FInf(x.s * y.s))
    ELSE IF FIsInf(y) THEN FZero(x.s * y.s)
    ELSE IF FIsZero(y) THEN (IF FIsZero(x) THEN FNaN ELSE FInf(x.s * y.s))
    ELSE IF FIsZero(x) THEN FZero(x.s * y.s)
    ELSE FDivShifted(x, y, LimbBits * Len(y.m) - BBitLen(y.m))

\* x == y as f64 compares (0.0 == -0.0, NaN equals nothing)
FEq(x, y) ==
    /\ ~FIsNaN(x) /\ ~FIsNaN(y)
    /\ ((FIsZero(x) /\ FIsZero(y)) \/ x = y)

\* x > y as f64 compares: false whenever either side is NaN
FIsPositive(d) == (~FIsZero(d)) /\ d.s > 0

FGt(x, y) ==
    IF FIsNaN(x) \/ FIsNaN(y) THEN FALSE
    ELSE IF FIsInf(x) \/ FIsInf(y)
         THEN (IF FIsInf(x) THEN x.s ELSE 0) > (IF FIsInf(y) THEN y.s ELSE 0)
    ELSE FIsPositive(FSub(x, y))

FLt(x, y) == FGt(y, x)

FGe(x, y) == (~FIsNaN(x)) /\ (~FIsNaN(y)) /\ ~FGt(y, x)

\* the f64 of the decimal literal n/d (n and d small integers, d > 0)
Decimal(n, d) == FDivInt(F64(n), d)

(***************************************************************************)
(* ExponentialMovingAverage                                                *)
(***************************************************************************)
\* k: 2.0 / (N + 1) as f64
EMANew(n) == [k |-> FDivInt(F64(2), n + 1), current |-> F64(0), is_new |-> TRUE]

\* faulty variant: the two weights are swapped
EMAStepSwapped(k, input, current) ==
    FAdd(FMul(k, current), FMul(FSub(F64(1), k), input))

\* self.k * input + (1.0 - self.k) * self.current
EMAStep(k, input, current) ==
    FAdd(FMul(k, input), FMul(FSub(F64(1), k), current))

\* self.is_new = false; self.current = current; self.current is returned
EMA_set(self, current) ==
    [self |-> [k |-> self.k, current |-> current, is_new |-> FALSE],
     out |-> current]

EMA_next(self, input) ==
    EMA_set(self, IF self.is_new THEN input
                  ELSE EMAStep(self.k, input, self.current))

\* faulty variant: is_new is not set again
EMA_reset_keep_flag(self) == [self EXCEPT !.current = F64(0)]

EMA_reset(self) == [self EXCEPT !.current = F64(0), !.is_new = TRUE]

(***************************************************************************)
(* RelativeStrengthIndex: two ExponentialMovingAverage<N> of the up and    *)
(* down moves of the input.                                                *)
(***************************************************************************)
RSINew(n) ==
    [up_ema_indicator |-> EMANew(n), down_ema_indicator |-> EMANew(n),
     prev_val |-> F64(0), is_new |-> TRUE]

\* the seed of the first tick: up = 0.1; down = 0.1
SEED == Decimal(1, 10)

\* up_ema + down_ema
RSIDivisor(up_ema, down_ema) == FAdd(up_ema, down_ema)

\* the up move of the tick
RSI_up(self, input) ==
    IF self.is_new THEN SEED
    ELSE IF FGt(input, self.prev_val) THEN FSub(input, self.prev_val)
    ELSE F64(0)

\* the down move of the tick
RSI_down(self, input) ==
    IF self.is_new THEN SEED
    ELSE IF FGt(input, self.prev_val) THEN F64(0)
    ELSE FSub(self.prev_val, input)

\* the instance and the output once the two averages u and d have stepped
RSI_set(input, u, d) ==
    [self |-> [up_ema_indicator |-> u.self,
               down_ema_indicator |-> d.self,
               prev_val |-> input,
               is_new |-> FALSE],
     out |-> FDiv(FMul(F64(100), u.out), RSIDivisor(u.out, d.out))]

RSI_next(self, input) ==
    RSI_set(input,
            EMA_next(self.up_ema_indicator, RSI_up(self, input)),
            EMA_next(self.down_ema_indicator, RSI_down(self, input)))

\* faulty variant: the two averages are not reset
RSI_reset_keep_emas(self) == [self EXCEPT !.is_new = TRUE, !.prev_val = F64(0)]

RSI_reset(self) ==
    [up_ema_indicator |-> EMA_reset(self.up_ema_indicator),
     down_ema_indicator |-> EMA_reset(self.down_ema_indicator),
     prev_val |-> F64(0),
     is_new |-> TRUE]

(***************************************************************************)
(* PercentagePriceOscillator: three ExponentialMovingAverage, of the       *)
(* periods FAST, SLOW and SIGNAL.  The output has three fields.            *)
(***************************************************************************)
PPONew(g) ==
    [fast_ema |-> EMANew(g.fast), slow_ema |-> EMANew(g.slow),
     signal_ema |-> EMANew(g.signal)]

\* the instance and the output once the three averages have stepped
PPO_set(fast, slow, line, signal) ==
    [self |-> [fast_ema |-> fast.self, slow_ema |-> slow.self,
               signal_ema |-> signal.self],
     out |-> [ppo |-> line, signal |-> signal.out,
              histogram |-> FSub(line, signal.out)]]

\* let signal = self.signal_ema.next(ppo)
PPO_signal(self, fast, slow, line) ==
    PPO_set(fast, slow, line, EMA_next(self.signal_ema, line))

\* faulty variant: the difference is taken relative to the fast average
PPO_line_over_fast(self, fast, slow) ==
    PPO_signal(self, fast, slow,
               FMul(FDiv(FSub(fast.out, slow.out), fast.out), F64(100)))

\* let ppo = (fast_val - slow_val) / slow_val * 100.0
PPO_line(self, fast, slow) ==
    PPO_signal(self, fast, slow,
               FMul(FDiv(FSub(fast.out, slow.out), slow.out), F64(100)))

PPO_next(self, input) ==
    PPO_line(self, EMA_next(self.fast_ema, input),
             EMA_next(self.slow_ema, input))

PPO_reset(self) ==
    [fast_ema |-> EMA_reset(self.fast_ema),
     slow_ema |-> EMA_reset(self.slow_ema),
     signal_ema |-> EMA_reset(self.signal_ema)]

(***************************************************************************)
(* SimpleMovingAverage and MeanAbsoluteDeviation in binary64: the same     *)
(* new(), next() and reset() as above, evaluated on inputs that are not    *)
(* integers, where the running sums round.                                 *)
(***************************************************************************)
SMA64New(n) ==
    [index |-> 0, count |-> 0, sum |-> F64(0), deque |-> Filled(n, F64(0))]

\* the instance and the output once count and sum are updated
SMA64_set(self, n, input, count, sum) ==
    [self |-> [index |-> Advance(self.index, n),
               count |-> count,
               sum |-> sum,
               deque |-> [self.deque EXCEPT ![self.index] = input]],
     out |-> FDiv(sum, F64(count))]

SMA64_next(self, n, input) ==
    SMA64_set(self, n, input,
              IF self.count < n THEN self.count + 1 ELSE self.count,
              FAdd(FSub(self.sum, self.deque[self.index]), input))

SMA64_reset(self, n) ==
    [index |-> 0, count |-> 0, sum |-> F64(0), deque |-> Filled(n, F64(0))]

MAD64New(n) ==
    [index |-> 0, count |-> 0, sum |-> F64(0), deque |-> Filled(n, F64(0))]

\* for value in slice { mad += (value - mean).abs() }
RECURSIVE SumAbsDev64(_, _, _)
SumAbsDev64(slice, mean, dev) ==
    IF slice = <<>> THEN dev
    ELSE SumAbsDev64(Tail(slice), mean, FAdd(dev, FAbs(FSub(slice[1], mean))))

\* the instance and the output once count, sum and deque are updated
MAD64_set(self, n, count, sum, deque) ==
    [self |-> [index |-> Advance(self.index, n),
               count |-> count,
               sum |-> sum,
               deque |-> deque],
     out |-> FDiv(SumAbsDev64(Slice(deque, 0, count),
                              FDiv(sum, F64(count)), F64(0)),
                  F64(count))]

MAD64_next(self, n, input) ==
    MAD64_set(self, n,
              IF self.count < n THEN self.count + 1 ELSE self.count,
              IF self.count < n
              THEN FAdd(self.sum, input)
              ELSE FSub(FAdd(self.sum, input), self.deque[self.index]),
              [self.deque EXCEPT ![self.index] = input])

MAD64_reset(self, n) ==
    [index |-> 0, count |-> 0, sum |-> F64(0), deque |-> Filled(n, F64(0))]

(***************************************************************************)
(* CommodityChannelIndex.  The input is a bar with high, low and close,    *)
(* given in tenths of the price unit.                                      *)
(***************************************************************************)
CCINew(n) == [sma |-> SMA64New(n), mad |-> MAD64New(n)]

\* the price t/10 as the f64 of its decimal literal
Price(t) == Decimal(t, 10)

\* let tp = (input.close() + input.high() + input.low()) / 3.0
TypicalPrice64(bar) ==
    FDiv(FAdd(FAdd(Price(bar.close), Price(bar.high)), Price(bar.low)), F64(3))

\* the constant 0.015 of the formula
LAMBERT == Decimal(15, 1000)

\* the bounds checks of the two owned primitives
CCI_in_bounds(self, n) == SMA_in_bounds(self.sma, n) /\ MAD_in_bounds(self.mad, n)

\* the instance and the output once the two primitives a and d have stepped
CCI_set(tp, a, d) ==
    [self |-> [sma |-> a.self, mad |-> d.self],
     out |-> IF FEq(d.out, F64(0)) THEN F64(0)
             ELSE FDiv(FSub(tp, a.out), FMul(d.out, LAMBERT))]

\* self.sma.next(tp); self.mad.next(input), which is Next<&T> and pushes
\* input.close()
CCI_step(self, n, bar, tp) ==
    CCI_set(tp, SMA64_next(self.sma, n, tp),
            MAD64_next(self.mad, n, Price(bar.close)))

CCI_next(self, n, bar) == CCI_step(self, n, bar, TypicalPrice64(bar))

CCI_reset(self, n) ==
    [sma |-> SMA64_reset(self.sma, n), mad |-> MAD64_reset(self.mad, n)]

(***************************************************************************)
(* MoneyFlowIndex in binary64: the same next() with every sum, difference, *)
(* product and quotient rounded as f64 rounds it.                          *)
(***************************************************************************)
MFI64New(n) ==
    [index |-> 0, count |-> 0, previous_typical_price |-> F64(0),
     total_positive_money_flow |-> F64(0), total_negative_money_flow |-> F64(0),
     deque |-> Filled(n, F64(0))]

\* f64::is_sign_positive: true for +0.0, false for -0.0
FIsSignPositive(x) == x.s > 0

\* faulty variant: the popped value is always taken off the positive total
MFI64_evict_positive_only(self, n, popped) ==
    IF self.count < n THEN self
    ELSE [self EXCEPT !.total_positive_money_flow = FSub(@, popped)]

\* the else branch of `if self.count < N`: the value in the slot about to be
\* overwritten leaves the total it was added to
MFI64_evict(self, n, popped) ==
    IF self.count < n THEN self
    ELSE IF FIsSignPositive(popped)
         THEN [self EXCEPT !.total_positive_money_flow = FSub(@, popped)]
         ELSE [self EXCEPT !.total_negative_money_flow = FAdd(@, popped)]

\* faulty variant: an unchanged typical price counts as a rise
MFI64_flow_ties_rise(self, index, tp, raw_money_flow) ==
    IF FGe(tp, self.previous_typical_price)
    THEN [self EXCEPT !.total_positive_money_flow = FAdd(@, raw_money_flow),
                      !.deque[index] = raw_money_flow]
    ELSE [self EXCEPT !.total_negative_money_flow = FAdd(@, raw_money_flow),
                      !.deque[index] = FNeg(raw_money_flow)]

\* the flow of the tick goes to the total of its direction and, signed, to
\* the slot; an unchanged typical price stores 0.0
MFI64_flow(self, index, tp, raw_money_flow) ==
    IF FGt(tp, self.previous_typical_price)
    THEN [self EXCEPT !.total_positive_money_flow = FAdd(@, raw_money_flow),
                      !.deque[index] = raw_money_flow]
    ELSE IF FLt(tp, self.previous_typical_price)
    THEN [self EXCEPT !.total_negative_money_flow = FAdd(@, raw_money_flow),
                      !.deque[index] = FNeg(raw_money_flow)]
    ELSE [self EXCEPT !.deque[index] = F64(0)]

\* total_positive_money_flow
\*     / (total_positive_money_flow + total_negative_money_flow) * 100.0
MFI64_ratio(positive, negative) ==
    FMul(FDiv(positive, FAdd(positive, negative)), F64(100))

\* the instance and the output once the totals and the slot are settled
MFI64_set(self, index, count, tp) ==
    [self |-> [self EXCEPT !.index = index, !.count = count,
                           !.previous_typical_price = tp],
     out |-> MFI64_ratio(self.total_positive_money_flow,
                         self.total_negative_money_flow)]

MFI64_step(self, n, bar, tp, index) ==
    IF self.count < n /\ self.count + 1 = 1
    THEN \* the first tick: only the cursor, the count and the price change
         [self |-> [self EXCEPT !.index = index, !.count = 1,
                                !.previous_typical_price = tp],
          out |-> F64(50)]
    ELSE MFI64_set(MFI64_flow(MFI64_evict(self, n, self.deque[index]),
                              index, tp, FMul(tp, F64(bar.volume))),
                   index, Min2(self.count + 1, n), tp)

MFI64_next(self, n, bar) ==
    MFI64_step(self, n, bar, TypicalPrice64(bar), Advance(self.index, n))

MFI64_reset(self, n) == MFI64New(n)

(***************************************************************************)
(* Minimum: the mirror image of Maximum.  new() fills the buffer with 0.0, *)
(* reset() fills it with +INFINITY, next() tracks the slot of the smallest *)
(* value and rescans from slot 0 when the tracked slot is overwritten.     *)
(***************************************************************************)
MinNew(n) == [min_index |-> 0, cur_index |-> 0, deque |-> Filled(n, Zero)]

\* the rescan from slot i on, with the running minimum and its index
RECURSIVE FindMinFrom(_, _, _, _, _)
FindMinFrom(deque, n, i, mn, index) ==
    IF i >= n THEN index
    ELSE IF RLt(deque[i], mn)
         THEN FindMinFrom(deque, n, i + 1, deque[i], i)
         ELSE FindMinFrom(deque, n, i + 1, mn, index)

find_min_index(deque, n) == FindMinFrom(deque, n, 0, INFINITY, 0)

Min_in_bounds(self, n) == self.cur_index < n /\ self.min_index < n

Min_next(self, n, input) ==
    LET deque == [self.deque EXCEPT ![self.cur_index] = input]
        min_index ==
            IF RLt(input, deque[self.min_index]) THEN self.cur_index
            ELSE IF self.min_index = self.cur_index THEN find_min_index(deque, n)
            ELSE self.min_index
    IN  [self |-> [min_index |-> min_index,
                   cur_index |-> Advance(self.cur_index, n),
                   deque |-> deque],
         out |-> deque[min_index]]

Min_reset(self, n) == [self EXCEPT !.deque = Filled(n, INFINITY)]

(***************************************************************************)
(* FastStochastic.  next() takes either an f64 or a bar with high, low and *)
(* close.                                                                  *)
(***************************************************************************)
FSNew(n) == [minimum |-> MinNew(n), maximum |-> MaxNew(n)]

\* the bounds checks of the two owned primitives
FS_in_bounds(self, n) ==
    Min_in_bounds(self.minimum, n) /\ Max_in_bounds(self.maximum, n)

\* faulty variant: the equality of the two extremes is not tested
StochasticUnguarded(value, lowest, highest) ==
    RMul(RDiv(RSub(value, lowest), RSub(highest, lowest)), FromInt(100))

\* if min == max { 50.0 } else { (input - min) / (max - min) * 100.0 }
Stochastic(value, lowest, highest) ==
    IF REq(lowest, highest) THEN FromInt(50)
    ELSE RMul(RDiv(RSub(value, lowest), RSub(highest, lowest)), FromInt(100))

\* impl Next<f64>
FS_next(self, n, input) ==
    LET mn == Min_next(self.minimum, n, input)
        mx == Max_next(self.maximum, n, input)
    IN  [self |-> [minimum |-> mn.self, maximum |-> mx.self],
         out |-> Stochastic(input, mn.out, mx.out)]

\* impl Next<&T>: the maximum takes the high, the minimum the low
FS_next_bar(self, n, bar) ==
    LET highest == Max_next(self.maximum, n, FromInt(bar.high))
        lowest == Min_next(self.minimum, n, FromInt(bar.low))
    IN  [self |-> [minimum |-> lowest.self, maximum |-> highest.self],
         out |-> Stochastic(FromInt(bar.close), lowest.out, highest.out)]

FS_reset(self, n) ==
    [minimum |-> Min_reset(self.minimum, n),
     maximum |-> Max_reset(self.maximum, n)]

(***************************************************************************)
(* Initial state: the instance right after new().                          *)
(***************************************************************************)
Prims == {"SMA", "MAX", "MAD", "ER", "ROC", "MFI", "EMA"}

\* the indicators built from the primitives
Composites == {"RSI", "PPO", "CCI", "FS"}

\* the primitives that are also modelled in binary64
Bitwise == {"MFI64", "SMA64"}

\* the longest stream fed to an instance of indicator type p
Budget(p) ==
    IF p = "MFI" THEN MaxBarTicks
    ELSE IF p = "MFI64" THEN MaxFlowTicks
    ELSE IF p = "SMA64" THEN MaxSumTicks
    ELSE IF p \in {"EMA", "RSI", "PPO"} THEN MaxEmaTicks
    ELSE IF p = "CCI" THEN MaxCciTicks
    ELSE IF p = "FS" THEN MaxFsTicks
    ELSE MaxTicks

\* the periods an instance of indicator type p is checked with
PeriodsOf(p) ==
    IF p = "EMA" THEN EmaPeriods
    ELSE IF p = "PPO" THEN {g.fast : g \in PpoGenerics}
    ELSE Periods

\* the const generics an instance of indicator type p is checked with: only
\* a PercentagePriceOscillator has them
GenericsOf(p) == IF p = "PPO" THEN PpoGenerics ELSE {DEFAULT_GENERICS}

\* an instance of indicator type p with period n right after new(), to be
\* fed b inputs
FreshAt(p, b, n) ==
    /\ sel = p
    /\ budget = b
    /\ N = n
    /\ generics \in {g \in GenericsOf(p) : p = "PPO" => g.fast = n}
    /\ hist = <<>>
    /\ ticks = 0
    /\ wasReset = FALSE
    /\ last = "new"
    /\ out = Zero
    /\ sma = SMANew(N)
    /\ max = MaxNew(N)
    /\ twin = MaxNew(N)
    /\ twinOut = Zero
    /\ mad = MADNew(N)
    /\ er = ERNew(N)
    /\ roc = ROCNew(N)
    /\ mfi = MFINew(N)
    /\ ema = EMANew(N)
    /\ rsi = RSINew(N)
    /\ cci = CCINew(N)
    /\ fs = FSNew(N)
    /\ ppo = PPONew(generics)
    /\ mfi64 = MFI64New(N)
    /\ sma64 = SMA64New(N)

\* an instance of indicator type p right after new(), to be fed b inputs
Fresh(p, b) == \E n \in PeriodsOf(p) : FreshAt(p, b, n)

Init ==
    \E p \in Prims \cup Composites \cup Bitwise :
        Fresh(p, Min2(Budget(p), MaxShortTicks))

\* the instance can take a call: no earlier call has panicked
Alive == last # "panic"

\* ghost bookkeeping of a next(v) call
Pushed(v) ==
    /\ hist' = Append(hist, v)
    /\ ticks' = ticks + 1
    /\ last' = "next"
    /\ UNCHANGED <<sel, N, generics, budget, wasReset>>

\* ghost bookkeeping of a next() call that fails a bounds check: the call
\* unwinds, nothing is returned and the instance is not used again
Panicked ==
    /\ last' = "panic"
    /\ UNCHANGED <<sel, N, generics, budget, wasReset, hist, ticks, out>>

\* ghost bookkeeping of a reset() call
WasReset ==
    /\ Alive
    /\ hist' = <<>>
    /\ wasReset' = TRUE
    /\ last' = "reset"
    /\ UNCHANGED <<sel, N, generics, budget, ticks, out>>

SMANext ==
    /\ sel = "SMA"
    /\ Alive /\ ticks < budget
    /\ \E v \in Vals :
          IF SMA_in_bounds(sma, N)
          THEN LET r == SMA_next(sma, N, FromInt(v))
               IN  /\ sma' = r.self
                   /\ out' = r.out
                   /\ Pushed(v)
          ELSE Panicked /\ UNCHANGED sma
    /\ UNCHANGED <<max, twin, twinOut, mad, er, roc, mfi, ema, rsi, cci, fs,
                   ppo,
                   mfi64,
                   sma64>>

SMAReset ==
    /\ sel = "SMA"
    /\ sma' = SMA_reset(sma, N)
    /\ WasReset
    /\ UNCHANGED <<max, twin, twinOut, mad, er, roc, mfi, ema, rsi, cci, fs,
                   ppo,
                   mfi64,
                   sma64>>

MaxNext ==
    /\ sel = "MAX"
    /\ Alive /\ ticks < budget
    /\ \E v \in Vals :
          IF Max_in_bounds(max, N) /\ Max_in_bounds(twin, N)
          THEN LET r == Max_next(max, N, FromInt(v))
                   t == Max_next(twin, N, FromInt(v))
               IN  /\ max' = r.self
                   /\ out' = r.out
                   /\ twin' = t.self
                   /\ twinOut' = t.out
                   /\ Pushed(v)
          ELSE Panicked /\ UNCHANGED <<max, twin, twinOut>>
    /\ UNCHANGED <<sma, mad, er, roc, mfi, ema, rsi, cci, fs, ppo, mfi64,
                   sma64>>

MaxReset ==
    /\ sel = "MAX"
    /\ max' = Max_reset(max, N)
    /\ twin' = MaxNew(N)
    /\ WasReset
    /\ UNCHANGED <<sma, twinOut, mad, er, roc, mfi, ema, rsi, cci, fs, ppo,
                   mfi64,
                   sma64>>

MADNext ==
    /\ sel = "MAD"
    /\ Alive /\ ticks < budget
    /\ \E v \in Vals :
          IF MAD_in_bounds(mad, N)
          THEN LET r == MAD_next(mad, N, FromInt(v))
               IN  /\ mad' = r.self
                   /\ out' = r.out
                   /\ Pushed(v)
          ELSE Panicked /\ UNCHANGED mad
    /\ UNCHANGED <<sma, max, twin, twinOut, er, roc, mfi, ema, rsi, cci, fs,
                   ppo,
                   mfi64,
                   sma64>>

MADReset ==
    /\ sel = "MAD"
    /\ mad' = MAD_reset(mad, N)
    /\ WasReset
    /\ UNCHANGED <<sma, max, twin, twinOut, er, roc, mfi, ema, rsi, cci, fs,
                   ppo,
                   mfi64,
                   sma64>>

ERNext ==
    /\ sel = "ER"
    /\ Alive /\ ticks < budget
    /\ \E v \in Vals :
          IF ER_in_bounds(er, N)
          THEN LET r == ER_next(er, N, FromInt(v))
               IN  /\ er' = r.self
                   /\ out' = r.out
                   /\ Pushed(v)
          ELSE Panicked /\ UNCHANGED er
    /\ UNCHANGED <<sma, max, twin, twinOut, mad, roc, mfi, ema, rsi, cci, fs,
                   ppo,
                   mfi64,
                   sma64>>

ERReset ==
    /\ sel = "ER"
    /\ er' = ER_reset(er, N)
    /\ WasReset
    /\ UNCHANGED <<sma, max, twin, twinOut, mad, roc, mfi, ema, rsi, cci, fs,
                   ppo,
                   mfi64,
                   sma64>>

ROCNext ==
    /\ sel = "ROC"
    /\ Alive /\ ticks < budget
    /\ \E v \in Vals :
          IF ROC_in_bounds(roc, N)
          THEN LET r == ROC_next(roc, N, FromInt(v))
               IN  /\ roc' = r.self
                   /\ out' = r.out
                   /\ Pushed(v)
          ELSE Panicked /\ UNCHANGED roc
    /\ UNCHANGED <<sma, max, twin, twinOut, mad, er, mfi, ema, rsi, cci, fs,
                   ppo,
                   mfi64,
                   sma64>>

ROCReset ==
    /\ sel = "ROC"
    /\ roc' = ROC_reset(roc, N)
    /\ WasReset
    /\ UNCHANGED <<sma, max, twin, twinOut, mad, er, mfi, ema, rsi, cci, fs,
                   ppo,
                   mfi64,
                   sma64>>

MFINext ==
    /\ sel = "MFI"
    /\ Alive /\ ticks < budget
    /\ \E bar \in Bars :
          IF MFI_in_bounds(mfi, N)
          THEN LET r == MFI_next(mfi, N, bar)
               IN  /\ mfi' = r.self
                   /\ out' = r.out
                   /\ Pushed(bar)
          ELSE Panicked /\ UNCHANGED mfi
    /\ UNCHANGED <<sma, max, twin, twinOut, mad, er, roc, ema, rsi, cci, fs,
                   ppo,
                   mfi64,
                   sma64>>

MFIReset ==
    /\ sel = "MFI"
    /\ mfi' = MFI_reset(mfi, N)
    /\ WasReset
    /\ UNCHANGED <<sma, max, twin, twinOut, mad, er, roc, ema, rsi, cci, fs,
                   ppo,
                   mfi64,
                   sma64>>

\* SimpleMovingAverage::next in binary64, on the inputs v / 10
SMA64Next ==
    /\ sel = "SMA64"
    /\ Alive /\ ticks < budget
    /\ \E v \in Vals :
          IF SMA_in_bounds(sma64, N)
          THEN LET r == SMA64_next(sma64, N, Price(v))
               IN  /\ sma64' = r.self
                   /\ out' = r.out
                   /\ Pushed(v)
          ELSE Panicked /\ UNCHANGED sma64
    /\ UNCHANGED <<sma, max, twin, twinOut, mad, er, roc, mfi, ema, rsi, cci,
                   fs, ppo, mfi64>>

SMA64Reset ==
    /\ sel = "SMA64"
    /\ sma64' = SMA64_reset(sma64, N)
    /\ WasReset
    /\ UNCHANGED <<sma, max, twin, twinOut, mad, er, roc, mfi, ema, rsi, cci,
                   fs, ppo, mfi64>>

\* MoneyFlowIndex::next in binary64, on bars with decimal prices
MFI64Next ==
    /\ sel = "MFI64"
    /\ Alive /\ ticks < budget
    /\ \E bar \in FlowBars :
          IF MFI_in_bounds(mfi64, N)
          THEN LET r == MFI64_next(mfi64, N, bar)
               IN  /\ mfi64' = r.self
                   /\ out' = r.out
                   /\ Pushed(bar)
          ELSE Panicked /\ UNCHANGED mfi64
    /\ UNCHANGED <<sma, max, twin, twinOut, mad, er, roc, mfi, ema, rsi, cci,
                   fs, ppo,
                   sma64>>

MFI64Reset ==
    /\ sel = "MFI64"
    /\ mfi64' = MFI64_reset(mfi64, N)
    /\ WasReset
    /\ UNCHANGED <<sma, max, twin, twinOut, mad, er, roc, mfi, ema, rsi, cci,
                   fs, ppo,
                   sma64>>

\* ExponentialMovingAverage::next indexes nothing: it cannot panic
EMANext ==
    /\ sel = "EMA"
    /\ Alive /\ ticks < budget
    /\ \E v \in EmaVals :
          LET r == EMA_next(ema, F64(v))
          IN  /\ ema' = r.self
              /\ out' = r.out
              /\ Pushed(v)
    /\ UNCHANGED <<sma, max, twin, twinOut, mad, er, roc, mfi, rsi, cci, fs,
                   ppo,
                   mfi64,
                   sma64>>

EMAReset ==
    /\ sel = "EMA"
    /\ ema' = EMA_reset(ema)
    /\ WasReset
    /\ UNCHANGED <<sma, max, twin, twinOut, mad, er, roc, mfi, rsi, cci, fs,
                   ppo,
                   mfi64,
                   sma64>>

\* RelativeStrengthIndex::next indexes nothing: it cannot panic
RSINext ==
    /\ sel = "RSI"
    /\ Alive /\ ticks < budget
    /\ \E v \in OscVals :
          LET r == RSI_next(rsi, F64(v))
          IN  /\ rsi' = r.self
              /\ out' = r.out
              /\ Pushed(v)
    /\ UNCHANGED <<sma, max, twin, twinOut, mad, er, roc, mfi, ema, cci, fs,
                   ppo,
                   mfi64,
                   sma64>>

RSIReset ==
    /\ sel = "RSI"
    /\ rsi' = RSI_reset(rsi)
    /\ WasReset
    /\ UNCHANGED <<sma, max, twin, twinOut, mad, er, roc, mfi, ema, cci, fs,
                   ppo,
                   mfi64,
                   sma64>>

\* PercentagePriceOscillator::next indexes nothing: it cannot panic
PPONext ==
    /\ sel = "PPO"
    /\ Alive /\ ticks < budget
    /\ \E v \in OscVals :
          LET r == PPO_next(ppo, F64(v))
          IN  /\ ppo' = r.self
              /\ out' = r.out
              /\ Pushed(v)
    /\ UNCHANGED <<sma, max, twin, twinOut, mad, er, roc, mfi, ema, rsi, cci,
                   fs,
                   mfi64,
                   sma64>>

PPOReset ==
    /\ sel = "PPO"
    /\ ppo' = PPO_reset(ppo)
    /\ WasReset
    /\ UNCHANGED <<sma, max, twin, twinOut, mad, er, roc, mfi, ema, rsi, cci,
                   fs,
                   mfi64,
                   sma64>>

CCINext ==
    /\ sel = "CCI"
    /\ Alive /\ ticks < budget
    /\ \E bar \in CciBars :
          IF CCI_in_bounds(cci, N)
          THEN LET r == CCI_next(cci, N, bar)
               IN  /\ cci' = r.self
                   /\ out' = r.out
                   /\ Pushed(bar)
          ELSE Panicked /\ UNCHANGED cci
    /\ UNCHANGED <<sma, max, twin, twinOut, mad, er, roc, mfi, ema, rsi, fs,
                   ppo,
                   mfi64,
                   sma64>>

CCIReset ==
    /\ sel = "CCI"
    /\ cci' = CCI_reset(cci, N)
    /\ WasReset
    /\ UNCHANGED <<sma, max, twin, twinOut, mad, er, roc, mfi, ema, rsi, fs,
                   ppo,
                   mfi64,
                   sma64>>

\* FastStochastic::next on an f64; the ghost history records the input as
\* the value the formula is applied to
FSNext ==
    /\ sel = "FS"
    /\ Alive /\ ticks < budget
    /\ \E v \in Vals :
          IF FS_in_bounds(fs, N)
          THEN LET r == FS_next(fs, N, FromInt(v))
               IN  /\ fs' = r.self
                   /\ out' = r.out
                   /\ Pushed([path |-> "f64", close |-> v])
          ELSE Panicked /\ UNCHANGED fs
    /\ UNCHANGED <<sma, max, twin, twinOut, mad, er, roc, mfi, ema, rsi, cci,
                   ppo,
                   mfi64,
                   sma64>>

\* FastStochastic::next on a bar
FSNextBar ==
    /\ sel = "FS"
    /\ Alive /\ ticks < budget
    /\ \E bar \in FsBars :
          IF FS_in_bounds(fs, N)
          THEN LET r == FS_next_bar(fs, N, bar)
               IN  /\ fs' = r.self
                   /\ out' = r.out
                   /\ Pushed([path |-> "bar", close |-> bar.close,
                              high |-> bar.high, low |-> bar.low])
          ELSE Panicked /\ UNCHANGED fs
    /\ UNCHANGED <<sma, max, twin, twinOut, mad, er, roc, mfi, ema, rsi, cci,
                   ppo,
                   mfi64,
                   sma64>>

FSReset ==
    /\ sel = "FS"
    /\ fs' = FS_reset(fs, N)
    /\ WasReset
    /\ UNCHANGED <<sma, max, twin, twinOut, mad, er, roc, mfi, ema, rsi, cci,
                   ppo,
                   mfi64,
                   sma64>>

NextSMA == SMANext \/ SMAReset

NextMAX == MaxNext \/ MaxReset

NextMAD == MADNext \/ MADReset

NextER == ERNext \/ ERReset

NextROC == ROCNext \/ ROCReset

NextMFI == MFINext \/ MFIReset

NextMFI64 == MFI64Next \/ MFI64Reset

NextSMA64 == SMA64Next \/ SMA64Reset

NextEMA == EMANext \/ EMAReset

NextRSI == RSINext \/ RSIReset

NextPPO == PPONext \/ PPOReset

NextCCI == CCINext \/ CCIReset

NextFS == FSNext \/ FSNextBar \/ FSReset

Next ==
    \/ NextSMA \/ NextMAX \/ NextMAD \/ NextER \/ NextROC \/ NextMFI \/ NextEMA
    \/ NextRSI \/ NextPPO \/ NextCCI \/ NextFS \/ NextMFI64
    \/ NextSMA64

Spec == Init /\ [][Next]_vars

InitSMA == Fresh("SMA", Budget("SMA"))

SpecSMA == InitSMA /\ [][NextSMA]_vars

InitMAX == Fresh("MAX", Budget("MAX"))

SpecMAX == InitMAX /\ [][NextMAX]_vars

InitMAD == Fresh("MAD", Budget("MAD"))

SpecMAD == InitMAD /\ [][NextMAD]_vars

InitROC == Fresh("ROC", Budget("ROC"))

SpecROC == InitROC /\ [][NextROC]_vars

InitER == Fresh("ER", Budget("ER"))

SpecER == InitER /\ [][NextER]_vars

InitMFI == Fresh("MFI", Budget("MFI"))

SpecMFI == InitMFI /\ [][NextMFI]_vars

InitMFI64 == Fresh("MFI64", Budget("MFI64"))

SpecMFI64 == InitMFI64 /\ [][NextMFI64]_vars

InitSMA64 == Fresh("SMA64", Budget("SMA64"))

SpecSMA64 == InitSMA64 /\ [][NextSMA64]_vars

InitEMA == Fresh("EMA", Budget("EMA"))

SpecEMA == InitEMA /\ [][NextEMA]_vars

InitRSI == Fresh("RSI", Budget("RSI"))

SpecRSI == InitRSI /\ [][NextRSI]_vars

InitPPO == Fresh("PPO", Budget("PPO"))

SpecPPO == InitPPO /\ [][NextPPO]_vars

InitCCI == Fresh("CCI", Budget("CCI"))

SpecCCI == InitCCI /\ [][NextCCI]_vars

InitFS == Fresh("FS", Budget("FS"))

SpecFS == InitFS /\ [][NextFS]_vars

\* the three oscillators built from moving averages
Oscillators == {"RSI", "PPO", "CCI"}

NextOscillators == NextRSI \/ NextPPO \/ NextCCI

InitOscillators == \E p \in Oscillators : Fresh(p, Budget(p))

SpecOscillators == InitOscillators /\ [][NextOscillators]_vars

\* the buffer primitives, each with a stream one shorter than its longest
Buffers == {"SMA", "MAD", "MAX", "MFI", "ER", "ROC"}

NextBuffers == NextSMA \/ NextMAD \/ NextMAX \/ NextMFI \/ NextER \/ NextROC

InitBuffers == \E p \in Buffers : Fresh(p, Min2(Budget(p), MaxTicks - 1))

SpecBuffers == InitBuffers /\ [][NextBuffers]_vars

\* the windowed primitives alone, constructed with any period the type
\* `const N: usize` admits, zero included
NextPrims ==
    NextSMA \/ NextMAX \/ NextMAD \/ NextER \/ NextROC \/ NextMFI \/ NextEMA

InitAnyPeriod ==
    \E p \in Prims : \E n \in {0} \cup PeriodsOf(p) :
        FreshAt(p, Min2(Budget(p), MaxShortTicks), n)

SpecAnyPeriod == InitAnyPeriod /\ [][NextPrims]_vars

(***************************************************************************)
(* Properties.                                                             *)
(***************************************************************************)

C2_MaxIsWindowMax ==
    (sel = "MAX" /\ last = "next" /\ ~wasReset)
        => out = FromInt(MaxSeq(LastM(hist, N)))

\* C3: Maximum<N>: the value returned by next is greater than or equal to
\* every value pushed within the last min(k, N) ticks.
C3_MaxDominatesWindow ==
    (sel = "MAX" /\ last = "next")
        => \A i \in DOMAIN LastM(hist, N) : RGe(out, FromInt(LastM(hist, N)[i]))

\* the tracked maximum has just aged out of a full window and every value
\* left in the window is smaller than it
C3_Witness ==
    /\ sel = "MAX" /\ last = "next" /\ N >= 2 /\ Len(hist) > N
    /\ hist[Len(hist) - N] > MaxSeq(LastM(hist, N))
    /\ \A i \in DOMAIN LastM(hist, N) : RGe(out, FromInt(LastM(hist, N)[i]))

\* C4: Maximum<N>: after reset(), replaying a stream returns at every tick
\* what a freshly constructed Maximum<N> returns for that stream.
C4_MaxResetReplaysFresh ==
    (sel = "MAX" /\ last = "next" /\ wasReset) => out = twinOut

\* C5: SimpleMovingAverage, MeanAbsoluteDeviation, EfficiencyRatio,
\* RateOfChange, MoneyFlowIndex, ExponentialMovingAverage: reset() leaves
\* every field equal to the value it has right after new() with the same N.
C5_ResetRestoresNew ==
    (last = "reset") =>
        /\ (sel = "SMA" => sma = SMANew(N))
        /\ (sel = "MAD" => mad = MADNew(N))
        /\ (sel = "ER" => er = ERNew(N))
        /\ (sel = "ROC" => roc = ROCNew(N))
        /\ (sel = "MFI" => mfi = MFINew(N))
        /\ (sel = "EMA" => ema = EMANew(N))

\* a SimpleMovingAverage that was reset after its whole stream was pushed
C5_Witness ==
    /\ sel = "SMA" /\ last = "reset" /\ N >= 2 /\ ticks = budget
    /\ sma = SMANew(N)

\* the exponential moving average of a non-empty history, from the formula
RECURSIVE RefEMA(_, _)
RefEMA(h, n) ==
    LET k == FDivInt(F64(2), n + 1)
        x == F64(h[Len(h)])
    IN  IF Len(h) = 1 THEN x
        ELSE FAdd(FMul(k, x),
                  FMul(FSub(F64(1), k), RefEMA(SubSeq(h, 1, Len(h) - 1), n)))

\* C6: ExponentialMovingAverage<N>: the first next after new() or reset()
\* returns its input, every later next returns k*input + (1-k)*previous
\* output with k = 2/(N+1), and the returned value is the stored current.
C6_EMAFollowsFormula ==
    (sel = "EMA" /\ last = "next") =>
        /\ out = RefEMA(hist, N)
        /\ out = ema.current
        /\ ~ema.is_new

\* a smoothing tick of a reset instance with the default period
C6_Witness ==
    /\ sel = "EMA" /\ last = "next" /\ wasReset /\ N = DEFAULT_PERIOD
    /\ Len(hist) >= 2 /\ hist[1] # hist[2]
    /\ out = RefEMA(hist, N)

\* C7: ExponentialMovingAverage<N>: a stream whose inputs are all c yields
\* exactly c on every tick (a stored value c fed the input c stays c).
C7_ConstantInputStaysExact ==
    (sel = "EMA" /\ last = "next" /\ \A i \in DOMAIN hist : hist[i] = hist[1])
        => FEq(out, F64(hist[1]))

\* C8: MoneyFlowIndex<N>: for bars with non-negative prices and volumes the
\* output of every next is a defined number in [0, 100].
C8_MFIOutputInRange ==
    (sel = "MFI" /\ last = "next") =>
        /\ IsFinite(out)
        /\ RGe(out, Zero)
        /\ RGe(FromInt(100), out)

\* C9: MoneyFlowIndex<N>: the first next on a fresh or reset instance returns
\* exactly 50, leaves both totals at 0, writes no flow into the buffer and
\* records the bar's typical price as the previous price.
C9_MFIFirstTickNeutral ==
    (sel = "MFI" /\ last = "next" /\ Len(hist) = 1) =>
        /\ out = FromInt(50)
        /\ mfi.total_positive_money_flow = Zero
        /\ mfi.total_negative_money_flow = Zero
        /\ mfi.deque = Filled(N, Zero)
        /\ mfi.previous_typical_price = TypicalPrice(hist[1])
        /\ mfi.count = 1

\* the first tick after a reset that followed at least two ticks
C9_Witness ==
    /\ sel = "MFI" /\ last = "next" /\ Len(hist) = 1 /\ wasReset
    /\ ticks >= 3 /\ N >= 2
    /\ out = FromInt(50)

\* C10: EfficiencyRatio<N>: for every input stream the output of every next
\* is a defined number in [0, 1].
C10_EROutputInUnitRange ==
    (sel = "ER" /\ last = "next") =>
        /\ IsFinite(out)
        /\ RGe(out, Zero)
        /\ RGe(FromInt(1), out)

\* the sum of |h[i] - h[i-1]| for i in lo..hi: the path length of the inputs
RECURSIVE PathLen(_, _, _)
PathLen(h, lo, hi) ==
    IF lo > hi THEN 0 ELSE Abs(h[lo] - h[lo - 1]) + PathLen(h, lo + 1, hi)

\* the reference input of tick k: x_(k-N) past warm-up, x_1 during warm-up
RefTick(h, n) == IF Len(h) > n THEN Len(h) - n ELSE 1

\* C11: EfficiencyRatio<N>: at tick k > N the output is |x_k - x_(k-N)| over
\* the sum of |x_i - x_(i-1)| for i in (k-N, k], at tick 1 < k <= N it is
\* |x_k - x_1| over the sum for i in [2, k], the differences being between
\* chronologically consecutive inputs wherever the cursor wraps (whenever
\* the divisor is non-zero).
C11_ERIsNetOverPath ==
    (/\ sel = "ER" /\ last = "next" /\ Len(hist) > 1
     /\ PathLen(hist, RefTick(hist, N) + 1, Len(hist)) # 0)
        => out = RDiv(FromInt(Abs(hist[Len(hist)] - hist[RefTick(hist, N)])),
                      FromInt(PathLen(hist, RefTick(hist, N) + 1, Len(hist))))

\* a tick past warm-up whose window straddles the end of the buffer and whose
\* inputs turn back, so that the ratio is strictly between 0 and 1
C11_Witness ==
    /\ sel = "ER" /\ last = "next" /\ N >= 3 /\ Len(hist) > N
    /\ er.index > 0 /\ er.index < N - 1
    /\ RGt(out, Zero) /\ RGt(FromInt(1), out)
    /\ out = RDiv(FromInt(Abs(hist[Len(hist)] - hist[RefTick(hist, N)])),
                  FromInt(PathLen(hist, RefTick(hist, N) + 1, Len(hist))))

\* C13: the windowed primitives (SimpleMovingAverage, Maximum,
\* MeanAbsoluteDeviation, MoneyFlowIndex, EfficiencyRatio, RateOfChange,
\* ExponentialMovingAverage): new() yields no usable instance with N = 0, so
\* no next call ever runs on an instance whose period is 0.
C13_ZeroPeriodRejected == (N = 0) => last # "next"

\* C14: for every N >= 1 and every sequence of next and reset calls on
\* SimpleMovingAverage, MeanAbsoluteDeviation, Maximum, MoneyFlowIndex,
\* EfficiencyRatio and RateOfChange, the cursor stays in [0, N) and every
\* array index and slice range used by next is within bounds (EfficiencyRatio
\* has index <= count <= N, MeanAbsoluteDeviation has count <= N), so that
\* next never fails.
C14_NextStaysInBounds ==
    /\ last # "panic"
    /\ (sel = "SMA" => sma.index \in 0..(N - 1) /\ SMA_in_bounds(sma, N))
    /\ (sel = "MAD" =>
            /\ mad.index \in 0..(N - 1) /\ mad.count <= N
            /\ MAD_in_bounds(mad, N))
    /\ (sel = "MAX" =>
            /\ max.cur_index \in 0..(N - 1) /\ max.max_index \in 0..(N - 1)
            /\ Max_in_bounds(max, N))
    /\ (sel = "MFI" => mfi.index \in 0..(N - 1) /\ MFI_in_bounds(mfi, N))
    /\ (sel = "ER" =>
            /\ er.index \in 0..(N - 1)
            /\ er.index <= er.count /\ er.count <= N
            /\ ER_in_bounds(er, N))
    /\ (sel = "ROC" => roc.index \in 0..(N - 1) /\ ROC_in_bounds(roc, N))

\* an EfficiencyRatio whose cursor has wrapped to slot 0 and left it again,
\* so that both slices of the next call are non-empty
C14_Witness ==
    /\ sel = "ER" /\ last = "next" /\ N >= 2 /\ Len(hist) = N + 1
    /\ er.index = 1 /\ er.count = N
    /\ ER_in_bounds(er, N)

\* the sum of |h[i] - mean| over a sequence of integers
RECURSIVE SumDevSeq(_, _)
SumDevSeq(h, mean) ==
    IF h = <<>> THEN Zero
    ELSE RAdd(RAbs(RSub(FromInt(h[1]), mean)), SumDevSeq(Tail(h), mean))

\* the mean absolute deviation of a non-empty sequence of integers
MeanDevSeq(h) == RDiv(SumDevSeq(h, MeanSeq(h)), FromInt(Len(h)))

C16_ROCIsChangeOverWindow ==
    (sel = "ROC" /\ last = "next" /\ hist[RefTick(hist, N)] # 0) =>
        /\ out = RMul(RDiv(FromInt(hist[Len(hist)] - hist[RefTick(hist, N)]),
                           FromInt(hist[RefTick(hist, N)])),
                      FromInt(100))
        /\ (Len(hist) = 1 => out = Zero)

\* a tick past the first window whose reference price is neither the first
\* price pushed nor equal to the current one
C16_Witness ==
    /\ sel = "ROC" /\ last = "next" /\ N >= 2 /\ Len(hist) >= N + 2
    /\ hist[Len(hist) - N] # 0
    /\ hist[Len(hist) - N] # hist[1]
    /\ hist[Len(hist) - N] # hist[Len(hist)]
    /\ out = RMul(RDiv(FromInt(hist[Len(hist)] - hist[Len(hist) - N]),
                       FromInt(hist[Len(hist) - N])),
                  FromInt(100))

\* C12: RelativeStrengthIndex<N>: for every N >= 1 and every input stream,
\* at every tick the divisor up_ema + down_ema is non-zero and the output
\* lies in [0, 100].
C12_RSIOutputInRange ==
    (sel = "RSI" /\ last = "next") =>
        /\ ~FIsZero(RSIDivisor(rsi.up_ema_indicator.current,
                               rsi.down_ema_indicator.current))
        /\ FGe(out, F64(0))
        /\ FGe(F64(100), out)

\* every bar of the sequence is the same bar
Identical(h) == \A i \in DOMAIN h : h[i] = h[1]

\* C17: CommodityChannelIndex<N>: whenever the mean absolute deviation of
\* the current window is 0 (always on the first tick, and for any window of
\* identical bars) next returns exactly 0, and it never divides by zero.
C17_CCIFlatWindowIsZero ==
    (sel = "CCI" /\ last = "next") =>
        /\ FIsFinite(out)
        /\ (Identical(LastM(hist, N)) => FEq(out, F64(0)))

\* the formula's two series fed the typical prices of the bars of h, oldest
\* first, from a fresh pair: the moving average, the mean absolute deviation
\* and the index they give on the last bar
RECURSIVE TypicalRun(_, _)
TypicalRun(h, n) ==
    IF h = <<>>
    THEN [sma |-> SMA64New(n), mad |-> MAD64New(n),
          dev |-> F64(0), out |-> F64(0)]
    ELSE LET p == TypicalRun(SubSeq(h, 1, Len(h) - 1), n)
             tp == TypicalPrice64(h[Len(h)])
             a == SMA64_next(p.sma, n, tp)
             d == MAD64_next(p.mad, n, tp)
         IN  [sma |-> a.self, mad |-> d.self, dev |-> d.out,
              out |-> FDiv(FSub(tp, a.out), FMul(d.out, LAMBERT))]

\* C18: CommodityChannelIndex<N>: for every stream of bars, when the
\* deviation is non-zero the output equals
\* (TP - SMA_N(TP)) / (0.015 * MAD_N(TP)) with TP = (high + low + close) / 3,
\* the moving average and the mean absolute deviation both being computed
\* over the same typical-price series.
C18_CCIIsTypicalPriceIndex ==
    (sel = "CCI" /\ last = "next" /\ ~FIsZero(TypicalRun(hist, N).dev))
        => out = TypicalRun(hist, N).out

\* the value the last next() of the FastStochastic applied the formula to
FSValue == FromInt(hist[Len(hist)].close)

\* what the Minimum and the Maximum returned to the last next(): the slots
\* they track
FSLowest == fs.minimum.deque[fs.minimum.min_index]

FSHighest == fs.maximum.deque[fs.maximum.max_index]

\* C19: FastStochastic<N>: on both the scalar and the bar path, next returns
\* exactly 50 whenever the windowed maximum equals the windowed minimum, and
\* otherwise (value - min) / (max - min) * 100; it never divides by zero,
\* whatever values the Maximum and Minimum primitives return.
C19_StochasticGuardsDivision ==
    (sel = "FS" /\ last = "next") =>
        /\ IsFinite(out)
        /\ (FSLowest = FSHighest => out = FromInt(50))
        /\ (FSLowest # FSHighest =>
                /\ RSub(FSHighest, FSLowest) # Zero
                /\ out = RMul(RDiv(RSub(FSValue, FSLowest),
                                   RSub(FSHighest, FSLowest)),
                              FromInt(100)))

\* a bar whose high equals its low, pushed right after a reset: the two
\* extremes are equal and non-zero, and 50 is returned
C19_Witness ==
    /\ sel = "FS" /\ last = "next" /\ wasReset /\ N >= 2
    /\ Len(hist) = 1 /\ hist[1].path = "bar"
    /\ FSLowest = FSHighest /\ FSLowest # Zero
    /\ out = FromInt(50)

\* a freshly constructed RelativeStrengthIndex<n> fed the stream h: the
\* instance and its last output
RECURSIVE RSIRun(_, _)
RSIRun(h, n) ==
    IF h = <<>> THEN [self |-> RSINew(n), out |-> F64(0)]
    ELSE RSI_next(RSIRun(SubSeq(h, 1, Len(h) - 1), n).self, F64(h[Len(h)]))

\* a freshly constructed PercentagePriceOscillator fed the stream h
RECURSIVE PPORun(_, _)
PPORun(h, g) ==
    IF h = <<>> THEN [self |-> PPONew(g), out |-> F64(0)]
    ELSE PPO_next(PPORun(SubSeq(h, 1, Len(h) - 1), g).self, F64(h[Len(h)]))

\* a freshly constructed CommodityChannelIndex<n> fed the bars h
RECURSIVE CCIRun(_, _)
CCIRun(h, n) ==
    IF h = <<>> THEN [self |-> CCINew(n), out |-> F64(0)]
    ELSE CCI_next(CCIRun(SubSeq(h, 1, Len(h) - 1), n).self, n, h[Len(h)])

\* C20: RelativeStrengthIndex, PercentagePriceOscillator and
\* CommodityChannelIndex: after any history of next calls, reset() followed
\* by replaying an input stream yields the same output at every tick as a
\* freshly constructed instance fed that stream.
C20_OscillatorResetReplaysFresh ==
    (wasReset /\ last = "next") =>
        /\ (sel = "RSI" =>
                /\ out = RSIRun(hist, N).out
                /\ rsi = RSIRun(hist, N).self)
        /\ (sel = "PPO" =>
                /\ out = PPORun(hist, generics).out
                /\ ppo = PPORun(hist, generics).self)
        /\ (sel = "CCI" =>
                /\ out = CCIRun(hist, N).out
                /\ cci = CCIRun(hist, N).self)

\* a RelativeStrengthIndex that took an input, was reset and has since been
\* fed a rising pair: its output is that of a fresh instance and
\* lies strictly between 50 and 100
C20_Witness ==
    /\ sel = "RSI" /\ wasReset /\ last = "next"
    /\ Len(hist) = 2 /\ ticks > Len(hist) /\ hist[1] < hist[2]
    /\ FGt(out, F64(50)) /\ FGt(F64(100), out)
    /\ out = RSIRun(hist, N).out

\* the ppo line of the last tick of the stream h, from the formula
RefLine(h, g) ==
    FMul(FDiv(FSub(RefEMA(h, g.fast), RefEMA(h, g.slow)), RefEMA(h, g.slow)),
         F64(100))

\* the SIGNAL-period exponential moving average of the ppo lines of h
RECURSIVE RefSignal(_, _)
RefSignal(h, g) ==
    IF Len(h) = 1 THEN RefLine(h, g)
    ELSE EMAStep(FDivInt(F64(2), g.signal + 1), RefLine(h, g),
                 RefSignal(SubSeq(h, 1, Len(h) - 1), g))

\* C21: PercentagePriceOscillator<FAST, SLOW, SIGNAL>: at every tick
\* ppo = (fast_ema - slow_ema) / slow_ema * 100, signal is the SIGNAL-period
\* EMA of the ppo series, and histogram = ppo - signal; on the first tick of
\* a stream with a non-zero input all three outputs are 0.
C21_PPOFollowsFormula ==
    (sel = "PPO" /\ last = "next") =>
        /\ ppo.fast_ema.current = RefEMA(hist, generics.fast)
        /\ ppo.slow_ema.current = RefEMA(hist, generics.slow)
        /\ out.ppo = RefLine(hist, generics)
        /\ out.signal = RefSignal(hist, generics)
        /\ out.histogram = FSub(out.ppo, out.signal)
        /\ (Len(hist) = 1 /\ hist[1] # 0 =>
                /\ FEq(out.ppo, F64(0))
                /\ FEq(out.signal, F64(0))
                /\ FEq(out.histogram, F64(0)))

\* Ppo::<3, 6, 4> on its second tick or later, the price having moved: the
\* line is finite and the signal lags it
C21_Witness ==
    /\ sel = "PPO" /\ last = "next" /\ generics = TEST_GENERICS
    /\ Len(hist) >= 2 /\ hist[1] # 0 /\ hist[1] # hist[2]
    /\ FIsFinite(out.ppo) /\ ~FIsZero(out.histogram)
    /\ out.ppo = RefLine(hist, generics)

\* C22: Maximum<N>: after reset() at any point of any history (whatever the
\* cursor and max_index positions are at that moment), the first next(x)
\* returns x, and the k-th next after the reset returns the maximum of the
\* last min(k, N) values pushed since the reset.
C22_MaxAfterResetIsWindowMax ==
    (sel = "MAX" /\ last = "next" /\ wasReset) =>
        /\ out = FromInt(MaxSeq(LastM(hist, N)))
        /\ (Len(hist) = 1 => out = FromInt(hist[1]))

\* a reset made while the cursor was off slot 0 and max_index was not the
\* cursor, followed by fewer than N pushes, all of them negative
C22_Witness ==
    /\ sel = "MAX" /\ last = "next" /\ wasReset /\ N >= 3
    /\ Len(hist) = 2 /\ hist[1] < 0 /\ hist[2] <= hist[1]
    /\ (ticks - Len(hist)) % N # 0
    /\ max.max_index # 0
    /\ out = FromInt(hist[1])

\* C23: Maximum<N>: once at least N values have been pushed since
\* construction (with no reset in between), every later output equals the
\* maximum of exactly the last N pushed values, including on ticks where the
\* previous maximum has just aged out of the window.
C23_MaxOfFullWindow ==
    (sel = "MAX" /\ last = "next" /\ ~wasReset /\ Len(hist) >= N)
        => out = FromInt(MaxSeq(LastM(hist, N)))

\* a never-reset instance past warm-up: the value that has just left the
\* window was its maximum, and the maximum of what is left is negative
C23_Witness ==
    /\ sel = "MAX" /\ last = "next" /\ ~wasReset /\ N >= 2 /\ Len(hist) > N
    /\ hist[Len(hist) - N] > MaxSeq(LastM(hist, N))
    /\ MaxSeq(LastM(hist, N)) < 0
    /\ out = FromInt(MaxSeq(LastM(hist, N)))

\* the lowest buffer index holding the largest value of the buffer
LowestArgMax(deque, n) ==
    CHOOSE i \in 0..(n - 1) :
        /\ \A j \in 0..(n - 1) : RGe(deque[i], deque[j])
        /\ \A j \in 0..(n - 1) : j < i => RGt(deque[i], deque[j])

\* C24: Maximum<N>: a pushed value equal to the currently tracked maximum
\* does not move max_index when it is written to a different slot; when the
\* slot at max_index is the one being overwritten, max_index becomes the
\* lowest buffer index holding the largest value of the buffer contents
\* after the write.
C24_TieKeepsIndexRescanTakesLowest ==
    [][(sel = "MAX" /\ last' = "next" /\ ticks' = ticks + 1) =>
          /\ (/\ max.max_index # max.cur_index
              /\ REq(FromInt(hist'[Len(hist')]), max.deque[max.max_index]))
                 => max'.max_index = max.max_index
          /\ max.max_index = max.cur_index
                 => /\ max'.max_index = LowestArgMax(max'.deque, N)
                    /\ max'.deque =
                         [max.deque EXCEPT ![max.cur_index] =
                              FromInt(hist'[Len(hist')])]]_vars

\* 1, 1, 1, 0 into a fresh Maximum<3>: the second and third push tie with
\* the tracked maximum in other slots and leave max_index at 0; the fourth
\* overwrites the tracked slot and the rescan of [0, 1, 1] lands on slot 1
C24_Witness ==
    /\ sel = "MAX" /\ last = "next" /\ ~wasReset /\ N = 3
    /\ Len(hist) = 4
    /\ hist[1] = hist[2] /\ hist[2] = hist[3] /\ hist[4] < hist[3]
    /\ max.max_index = 1
    /\ max.cur_index = 1
    /\ out = FromInt(hist[3])

\* C25: Maximum<N>: in every reachable state (after new, after any number of
\* next calls and after reset) max_index is in [0, N) and
\* deque[max_index] >= deque[i] for every slot i in [0, N), placeholder
\* slots included.
C25_MaxIndexTracksLargestSlot ==
    sel = "MAX" =>
        /\ max.max_index \in 0..(N - 1)
        /\ \A i \in 0..(N - 1) : RGe(max.deque[max.max_index], max.deque[i])

\* one push after a reset made with the cursor on the last slot of a
\* Maximum<3>: the tracked slot holds the value, the others the placeholder
C25_Witness ==
    /\ sel = "MAX" /\ last = "next" /\ wasReset /\ N = 3
    /\ Len(hist) = 1
    /\ max.max_index = 2
    /\ max.deque[2] = FromInt(hist[1])
    /\ max.deque[0] = NEG_INFINITY /\ max.deque[1] = NEG_INFINITY

\* the positive total once a value leaves the window: a positive value is
\* taken off, a negative one or a zero changes nothing
PositiveWithout(total, popped) ==
    IF FGt(popped, F64(0)) THEN FSub(total, popped) ELSE total

\* the negative total once a value leaves the window: the magnitude of a
\* negative value is taken off, a positive one or a zero changes nothing
NegativeWithout(total, popped) ==
    IF FLt(popped, F64(0)) THEN FSub(total, FAbs(popped)) ELSE total

\* the flow a tick with typical price tp adds to the positive total
FlowUp(self, bar, tp) ==
    IF self.count > 0 /\ FGt(tp, self.previous_typical_price)
    THEN FMul(tp, F64(bar.volume)) ELSE F64(0)

\* the flow a tick with typical price tp adds to the negative total
FlowDown(self, bar, tp) ==
    IF self.count > 0 /\ FLt(tp, self.previous_typical_price)
    THEN FMul(tp, F64(bar.volume)) ELSE F64(0)

\* total + flow, the total itself when the tick adds no flow
Plus(total, flow) == IF FIsZero(flow) THEN total ELSE FAdd(total, flow)

\* the totals of `after` are those of `before` with popped evicted and the
\* flow of bar added
EvictedThenAdded(before, after, popped, bar) ==
    /\ after.total_positive_money_flow =
           Plus(PositiveWithout(before.total_positive_money_flow, popped),
                FlowUp(before, bar, TypicalPrice64(bar)))
    /\ after.total_negative_money_flow =
           Plus(NegativeWithout(before.total_negative_money_flow, popped),
                FlowDown(before, bar, TypicalPrice64(bar)))

\* C26: MoneyFlowIndex<N>: on a tick that starts with count == N, the value
\* held in the slot about to be overwritten is removed from
\* total_positive_money_flow if it is positive and its magnitude is removed
\* from total_negative_money_flow if it is negative, and a zero value
\* changes neither total; on ticks that start with count < N no eviction
\* adjustment is made.
C26_EvictionAdjustsTotals ==
    [][(sel = "MFI64" /\ last' = "next" /\ ticks' = ticks + 1) =>
          IF mfi64.count = N
          THEN EvictedThenAdded(mfi64, mfi64', mfi64.deque[mfi64'.index],
                                hist'[Len(hist')])
          ELSE EvictedThenAdded(mfi64, mfi64', F64(0), hist'[Len(hist')])]_vars

\* MoneyFlowIndex<2> after four ticks: the second tick fell, the third rose
\* and the fourth repeated the price, so the fourth tick evicted the negative
\* flow of the second (the third evicted the 0.0 left by new()) and only
\* the positive flow of the third is left
C26_Witness ==
    /\ sel = "MFI64" /\ last = "next" /\ N = 2 /\ Len(hist) = 4
    /\ hist[2].close < hist[1].close
    /\ hist[3].close > hist[2].close
    /\ hist[4].close = hist[3].close
    /\ mfi64.count = 2
    /\ FIsZero(mfi64.total_negative_money_flow)
    /\ mfi64.total_positive_money_flow = mfi64.deque[1]
    /\ FIsPositive(mfi64.deque[1]) /\ FIsZero(mfi64.deque[0])

\* the orders in which the n slots of a buffer can be added up
Orders(n) == {f \in [1..n -> 0..(n - 1)] : \A i, j \in 1..n : f[i] = f[j] => i = j}

\* the positive entries of the buffer added up in the given order, starting
\* with slot order[i] and the partial sum acc
RECURSIVE SumPositive(_, _, _, _)
SumPositive(deque, order, i, acc) ==
    IF i > Len(order) THEN acc
    ELSE SumPositive(deque, order, i + 1,
                     IF FGt(deque[order[i]], F64(0))
                     THEN FAdd(acc, deque[order[i]]) ELSE acc)

\* the magnitudes of the negative entries of the buffer added up likewise
RECURSIVE SumNegative(_, _, _, _)
SumNegative(deque, order, i, acc) ==
    IF i > Len(order) THEN acc
    ELSE SumNegative(deque, order, i + 1,
                     IF FLt(deque[order[i]], F64(0))
                     THEN FAdd(acc, FAbs(deque[order[i]])) ELSE acc)

\* C27: MoneyFlowIndex<N>: for streams with non-negative typical price times
\* volume, in every reachable state total_positive_money_flow equals the sum
\* of the positive entries of the buffer, total_negative_money_flow equals
\* the sum of the magnitudes of the negative entries, and both totals are
\* >= 0.  (The sums are taken in whichever order of the slots agrees.)
C27_TotalsAreBufferSums ==
    sel = "MFI64" =>
        /\ \E order \in Orders(N) :
               FEq(mfi64.total_positive_money_flow,
                   SumPositive(mfi64.deque, order, 1, F64(0)))
        /\ \E order \in Orders(N) :
               FEq(mfi64.total_negative_money_flow,
                   SumNegative(mfi64.deque, order, 1, F64(0)))
        /\ FGe(mfi64.total_positive_money_flow, F64(0))
        /\ FGe(mfi64.total_negative_money_flow, F64(0))

\* the flows tp_i * volume_i of the ticks lo + order[j] of the history h whose
\* typical price rose (up) or fell (~up) against the tick before, added up
\* in the given order starting with the j-th and the partial sum acc
RECURSIVE WindowFlow(_, _, _, _, _, _)
WindowFlow(h, lo, order, j, acc, up) ==
    IF j > Len(order) THEN acc
    ELSE WindowFlow(h, lo, order, j + 1,
             IF (IF up THEN FGt(TypicalPrice64(h[lo + order[j]]),
                                TypicalPrice64(h[lo + order[j] - 1]))
                 ELSE FLt(TypicalPrice64(h[lo + order[j]]),
                          TypicalPrice64(h[lo + order[j] - 1])))
             THEN FAdd(acc, FMul(TypicalPrice64(h[lo + order[j]]),
                                 F64(h[lo + order[j]].volume)))
             ELSE acc,
             up)

\* the first tick of the window of tick k: max(2, k - N + 1)
WindowStart(k, n) == IF k - n + 1 > 2 THEN k - n + 1 ELSE 2

\* C28: MoneyFlowIndex<N>: after tick k >= 2 the positive total equals the
\* sum of tp_i * volume_i over the ticks i in [max(2, k-N+1), k] with
\* tp_i > tp_(i-1), and the negative total equals the same sum over the
\* ticks with tp_i < tp_(i-1); the output is
\* positive / (positive + negative) * 100.  (The sums are taken in whichever
\* order of the ticks agrees.)
C28_TotalsCoverLastNTicks ==
    (sel = "MFI64" /\ last = "next" /\ Len(hist) >= 2) =>
        /\ \E order \in Orders(Len(hist) - WindowStart(Len(hist), N) + 1) :
               FEq(mfi64.total_positive_money_flow,
                   WindowFlow(hist, WindowStart(Len(hist), N), order, 1,
                              F64(0), TRUE))
        /\ \E order \in Orders(Len(hist) - WindowStart(Len(hist), N) + 1) :
               FEq(mfi64.total_negative_money_flow,
                   WindowFlow(hist, WindowStart(Len(hist), N), order, 1,
                              F64(0), FALSE))
        /\ out = FMul(FDiv(mfi64.total_positive_money_flow,
                           FAdd(mfi64.total_positive_money_flow,
                                mfi64.total_negative_money_flow)), F64(100))

\* C29: MoneyFlowIndex<N>: a tick (other than the first) whose typical price
\* equals the previous tick's typical price stores 0 in its slot and adds
\* nothing to either running total; apart from the eviction adjustment of
\* that tick, both totals are unchanged.
C29_FlatTickAddsNothing ==
    [][(/\ sel = "MFI64" /\ last' = "next" /\ ticks' = ticks + 1
        /\ mfi64.count > 0
        /\ FEq(TypicalPrice64(hist'[Len(hist')]),
               mfi64.previous_typical_price)) =>
          /\ mfi64'.deque = [mfi64.deque EXCEPT ![mfi64'.index] = F64(0)]
          /\ mfi64'.total_positive_money_flow =
                 IF mfi64.count = N
                 THEN PositiveWithout(mfi64.total_positive_money_flow,
                                      mfi64.deque[mfi64'.index])
                 ELSE mfi64.total_positive_money_flow
          /\ mfi64'.total_negative_money_flow =
                 IF mfi64.count = N
                 THEN NegativeWithout(mfi64.total_negative_money_flow,
                                      mfi64.deque[mfi64'.index])
                 ELSE mfi64.total_negative_money_flow]_vars

\* MoneyFlowIndex<3> after a first bar, a rising bar and a bar that repeats
\* its price: the third tick wrote 0.0 into slot 0 and the positive total is
\* still the flow of the second tick, held in slot 2
C29_Witness ==
    /\ sel = "MFI64" /\ last = "next" /\ N = 3 /\ Len(hist) = 3
    /\ hist[2].close > hist[1].close
    /\ hist[3] = hist[2]
    /\ mfi64.index = 0 /\ mfi64.count = 3
    /\ FIsZero(mfi64.deque[0])
    /\ FIsPositive(mfi64.deque[2])
    /\ mfi64.total_positive_money_flow = mfi64.deque[2]
    /\ FIsZero(mfi64.total_negative_money_flow)
    /\ out = F64(100)

\* the indicators that keep a fill counter capped at N
Counted == {"SMA", "MAD", "MFI", "ER"}

\* the fill counter of the instance of type p among the four structs
FillCount(p, a, d, m, e) ==
    IF p = "SMA" THEN a.count
    ELSE IF p = "MAD" THEN d.count
    ELSE IF p = "MFI" THEN m.count
    ELSE e.count

\* the counter is the capped number of next calls since new/reset, hence 0
\* right after new and reset and never above N
CountIsCappedCalls ==
    sel \in Counted =>
        /\ FillCount(sel, sma, mad, mfi, er) = Min2(Len(hist), N)
        /\ FillCount(sel, sma, mad, mfi, er) <= N
        /\ (last \in {"new", "reset"} => FillCount(sel, sma, mad, mfi, er) = 0)

\* a next moves the counter up by one while it is below N and leaves it at N
\* afterwards; only reset lowers it
CountStepsByOne ==
    sel \in Counted =>
        /\ (last' = "next" /\ ticks' = ticks + 1) =>
               (FillCount(sel, sma', mad', mfi', er') =
                    IF FillCount(sel, sma, mad, mfi, er) < N
                    THEN FillCount(sel, sma, mad, mfi, er) + 1
                    ELSE N)
        /\ (last' # "reset") =>
               (FillCount(sel, sma', mad', mfi', er') >=
                    FillCount(sel, sma, mad, mfi, er))

\* C30: SimpleMovingAverage, MeanAbsoluteDeviation, MoneyFlowIndex and
\* EfficiencyRatio: the fill counter is 0 after new and after reset,
\* increases by exactly 1 on each next while it is below N, equals
\* min(number of next calls since new/reset, N), never exceeds N, and never
\* decreases except through reset.
C30_FillCounterIsCappedCallCount ==
    ([]CountIsCappedCalls) /\ [][CountStepsByOne]_vars

\* a MoneyFlowIndex<2> that was filled, reset and fed three more bars: the
\* counter is back at N although the first bar after the reset wrote no slot
C30_Witness ==
    /\ sel = "MFI" /\ last = "next" /\ wasReset /\ N = 2
    /\ Len(hist) = 3 /\ ticks > Len(hist)
    /\ mfi.count = 2

\* the slots of the buffer added up in the given order, starting with slot
\* order[i] and the partial sum acc
RECURSIVE SumSlots(_, _, _, _)
SumSlots(deque, order, i, acc) ==
    IF i > Len(order) THEN acc
    ELSE SumSlots(deque, order, i + 1, FAdd(acc, deque[order[i]]))

\* the slot under the cursor, which the next tick subtracts, holds the input
\* pushed N ticks before that tick
OldestIsNext ==
    (sel = "SMA64" /\ Len(hist) >= N) =>
        sma64.deque[sma64.index] = Price(hist[Len(hist) - N + 1])

\* C31: SimpleMovingAverage<N>: in every reachable state sum equals the sum
\* of all N buffer slots (slots not yet written since new/reset hold 0), and
\* the value subtracted from sum at tick k > N is exactly the input of tick
\* k - N.  (The slots are added up in whichever order agrees.)
C31_SumIsSumOfSlots ==
    sel = "SMA64" =>
        /\ \E order \in Orders(N) :
               FEq(sma64.sum, SumSlots(sma64.deque, order, 1, F64(0)))
        /\ OldestIsNext

\* C32: EfficiencyRatio<N>: the first next(x) on a fresh or reset instance
\* returns 1.0 for every first input x.
C32_ERFirstIsOne ==
    (sel = "ER" /\ last = "next" /\ Len(hist) = 1) => out = FromInt(1)

\* C33: ExponentialMovingAverage<N>: each output lies between the minimum
\* and the maximum of all inputs pushed since new/reset.
C33_EMAWithinInputRange ==
    (sel = "EMA" /\ last = "next") =>
        /\ \E i \in DOMAIN hist : FGe(out, F64(hist[i]))
        /\ \E i \in DOMAIN hist : FGe(F64(hist[i]), out)

\* C34: With N = 1, SimpleMovingAverage, ExponentialMovingAverage and
\* Maximum each return exactly the value just pushed on every tick, for
\* every input stream (negative values included) and on fresh as well as
\* reset instances.
C34_PeriodOneIsIdentity ==
    (N = 1 /\ last = "next") =>
        /\ sel = "SMA" => out = FromInt(hist[Len(hist)])
        /\ sel = "SMA64" => out = Price(hist[Len(hist)])
        /\ sel = "EMA" => out = F64(hist[Len(hist)])
        /\ sel = "MAX" => out = FromInt(hist[Len(hist)])

\* a fresh Maximum<1> whose first input is negative: the 0.0 placeholder of
\* new() is the slot overwritten, so the input is returned
C34_Witness ==
    /\ sel = "MAX" /\ N = 1 /\ last = "next" /\ ~wasReset
    /\ Len(hist) = 1 /\ hist[1] < 0
    /\ out = FromInt(hist[1])
    /\ max.deque[0] = FromInt(hist[1])

\* C35: RateOfChange<N>: the fill counter stays within [0, N] in every
\* reachable state, like the fill counter of every other windowed primitive.
C35_ROCCountWithinN ==
    sel = "ROC" => roc.count \in 0..N

\* C35, amended: RateOfChange<N>: the fill counter stays within [0, N + 1]
\* in every reachable state; it is the number of next calls since new/reset
\* capped at N + 1.
C35_ROCCountWithinNPlusOne ==
    sel = "ROC" =>
        /\ roc.count \in 0..(N + 1)
        /\ roc.count = Min2(Len(hist), N + 1)

\* a RateOfChange fed more than N + 1 values: the counter rests at N + 1
C35_Witness ==
    /\ sel = "ROC" /\ last = "next" /\ N >= 2
    /\ Len(hist) > N + 1
    /\ roc.count = N + 1

====
